---- MODULE Spec2Model ----
(***************************************************************************)
(* W5500 Ethernet driver (lib/lwip_wrapper/port/src/w5500.c) and its lwIP  *)
(* network-interface adapter (lib/lwip_wrapper/port/src/ethif.c).          *)
(*                                                                         *)
(* The driver is modelled at the granularity of one register-access        *)
(* transaction (one call of w5500_spi_io) per step.  The chip is the       *)
(* environment: every register read returns bytes chosen from small sets   *)
(* that contain the boundary values of each comparison in the code.        *)
(*                                                                         *)
(* Three specifications share the variables:                               *)
(*   Spec      direct calls of the four driver operations                  *)
(*   EthifSpec calls of ethif_init / ethif_poll / ethif_output             *)
(*   IoSpec    the register access layer against a chip memory             *)
(***************************************************************************)
EXTENDS Integers, Naturals, Sequences, FiniteSets, TLC

(* ---------------- register map (w5500.c:13-210) ---------------- *)
COMMON_REGISTER == 0
SOCKET0_REGISTER == 1
SOCKET0_TX_BUFFER == 2
SOCKET0_RX_BUFFER == 3

MR == 0
SHAR == 9
PHYCFGR == 46

Sn_MR == 0
Sn_CR == 1
Sn_IR == 2
Sn_SR == 3
Sn_RXBUF_SIZE == 30
Sn_TXBUF_SIZE == 31
Sn_TX_FSR == 32
Sn_TX_WR == 36
Sn_RX_RSR == 38
Sn_RX_RD == 40

MR_RST == 128
Sn_MR_MACRAW == 4
Sn_MR_MFEN == 128
Sn_CR_OPEN == 1
Sn_CR_SEND == 32
Sn_CR_RECV == 64
Sn_IR_DISCON == 2
Sn_IR_TIMEOUT == 8
Sn_IR_SENDOK == 16
SOCK_CLOSED == 0
SOCK_CLOSING == 26
SOCK_TIME_WAIT == 27
SOCK_CLOSE_WAIT == 28
SOCK_MACRAW == 66
PHYCFGR_RST == -129
PHYCFGR_OPMD == 64
PHYCFGR_OPMDC_ALLA == 56
PHYCFGR_LNK_ON == 1

MAX_LOOP_ITERATIONS == 1000
PBUF_POOL_BUFSIZE == 2974

(* ---------------- fixed-width arithmetic ---------------- *)
U8(x) == x % 256
U16(x) == x % 65536

RECURSIVE BitAnd(_, _)
BitAnd(a, b) ==
  IF a = 0 \/ b = 0 THEN 0
  ELSE (a % 2) * (b % 2) + 2 * BitAnd(a \div 2, b \div 2)

RECURSIVE BitOr(_, _)
BitOr(a, b) ==
  IF a = 0 THEN b
  ELSE IF b = 0 THEN a
  ELSE (IF a % 2 = 1 \/ b % 2 = 1 THEN 1 ELSE 0) + 2 * BitOr(a \div 2, b \div 2)

(* ---------------- values the environment supplies ---------------- *)
(* two bytes returned for a 16-bit register (free size, received size, cursor) *)
FsrReads == { <<0, 0>>, <<5, 220>> }
RsrReads == { <<0, 0>>, <<0, 60>> }
PtrReads == { <<0, 0>>, <<255, 255>> }
(* two bytes of the frame prefix read from the RX ring *)
HeaderReads == { <<0, 0>>, <<0, 1>>, <<0, 2>>, <<0, 3>>,
                 <<5, 236>>, <<5, 237>>, <<255, 255>> }
(* one byte returned for an 8-bit register *)
CrReads == { 0, Sn_CR_OPEN, Sn_CR_SEND, Sn_CR_RECV }
IrReads == { 0, 4, 2, 8, 16, 18, 24, 26, 240 }
SrReads == { SOCK_CLOSED, SOCK_CLOSING, SOCK_TIME_WAIT, SOCK_CLOSE_WAIT,
             SOCK_MACRAW, 19 }
MrReads == { 0, MR_RST, 16, 144 }
PhyReads == { 0, 1, 190, 191 }
(* arguments of the calls *)
TxLens == { 0, 1, 1500, 1501, 65536 }
RxCaps == { 0, 1514 }
OutLens == { 0, 1500, 1501 }
(* the pbuf handed to ethif_output: one buffer holding the whole frame, or the
   first buffer (54 bytes) of a chain *)
OutFrames ==
  { [tot_len |-> n, len |-> n] : n \in OutLens } \cup { [tot_len |-> 1500, len |-> 54] }

(* ---------------- state ---------------- *)
VARIABLES
  pc,           \* position of the running call, "idle" between calls
  caller,       \* who called the driver operation: "direct", "ethif_poll", ...
  count,        \* __count of the running WAIT_OR_FAIL
  passed,       \* result of the last WAIT_OR_FAIL
  buflen,       \* buflen argument of w5500_tx / w5500_rx
  len,          \* w5500_tx: len;  w5500_rx: len (the stable received size)
  freesize,     \* w5500_tx: freesize
  ptr,          \* cursor read from Sn_TX_WR / Sn_RX_RD
  frame_len,    \* w5500_rx: frame_len
  payload_len,  \* w5500_rx: payload_len
  ir,           \* w5500_tx: ir
  ethaddr,      \* w5500_init: s->ethaddr is not NULL
  sock_status,  \* byte read from Sn_SR by w5500_tx / w5500_init (-1: not read)
  waits,        \* results of the bounded waits finished by the running call
  done,         \* the driver operation that returned last ("none" while one runs)
  ret,          \* value returned by w5500_tx / w5500_rx
  ok,           \* value returned by w5500_init / w5500_poll
  stage,        \* the return statement that ended the operation
  log,          \* bus transactions made outside bounded waits, in order
  polled,       \* registers read by the bounded waits of the running call
  cleared,      \* flag values written back to Sn_IR by the running call
  bufWr,        \* number of bytes stored into the caller buffer (from index 0)
  link_up,      \* NETIF_FLAG_LINK_UP of netif->flags
  connected,    \* ethif_poll: connected, as read by the latest poll
  notes,        \* link notifications issued by the running ethif_poll
  hadPoll,      \* an ethif_poll has run since netif->flags was last reset
  pbuf,         \* buffer of the running / last ethif_poll: "none", "held", "freed", "accepted"
  err,          \* status returned by the last ethif_init / ethif_output
  mem,          \* IoSpec: chip memory, <<block, offset>> -> byte
  lastW,        \* IoSpec: the last register write
  lastR,        \* IoSpec: the last register read
  lastT,        \* IoSpec: the last w5500_spi_io call: arguments, shim calls, buffer after
  irq,          \* interrupts enabled (AVR: SREG I bit set; ARM: PRIMASK clear)
  irq_state,    \* ethif_output: irq_state, as saved by sys_arch_protect
  isr,          \* where an interrupt handler used the bus: "none", "outside", "inside" a transmit
  wMax,         \* WaitSpec: max_iter of the running WAIT_OR_FAIL
  wCount,       \* WaitSpec: __count
  wConds,       \* WaitSpec: the values the condition evaluated to, in order
  wRes,         \* WaitSpec: position in the macro: "idle", "running", "done"
  wResult,      \* WaitSpec: result
  cs,           \* the chip is selected (W5500_CS_PIN driven low by s->begin)
  fault,        \* first misuse of the bus seen at the shim, "none" if there was none
  desel,        \* s->end calls the running call made outside a transaction
  phy,          \* byte read from PHYCFGR by the latest link check (-1: none)
  rxCalls,      \* driver->rx calls made by the running / last ethif_poll
  inputs,       \* results of the netif->input calls of the running / last ethif_poll
  alloc,        \* what pbuf_alloc returned in the running / last ethif_poll: "none" (not called), "null", "single", "chain"
  frees,        \* pbuf_free calls made by the running / last ethif_poll
  plen,         \* p->len of the pbuf handed to the running / last ethif_output (-1: none)
  irReg,        \* SendSpec: flags latched in the chip's Sn_IR
  irOwn,        \* SendSpec: those of them raised for the running call's send command
  sends,        \* SendSpec: sends the chip has accepted and not completed, oldest first: "own" / "old"
  ownSeen       \* SendSpec: flags of the running call's own send in the value it last read from Sn_IR

drv == <<pc, caller, count, passed, buflen, len, freesize, ptr, frame_len,
         payload_len, ir, ethaddr, sock_status, waits, done, ret, ok, stage, log, polled,
         cleared, bufWr>>
drv_locals == <<caller, count, passed, buflen, len, freesize, ptr, frame_len,
                payload_len, ir, ethaddr, sock_status, waits, done, ret, ok, stage, log, polled,
                cleared, bufWr>>
adp == <<link_up, connected, notes, hadPoll, pbuf, err>>
iov == <<mem, lastW, lastR, lastT>>
irqv == <<irq, irq_state, isr>>
wtv == <<wMax, wCount, wConds, wRes, wResult>>
busv == <<cs, fault, desel>>
pollv == <<phy, rxCalls, inputs>>
ownv == <<alloc, frees, plen>>
chipv == <<irReg, irOwn, sends, ownSeen>>
vars == <<drv, adp, iov, irqv, wtv, busv, pollv, ownv, chipv>>

(* ---------------- register access layer, as seen by the driver ---------- *)
(* one w5500_spi_io call: direction, block, offset, byte count, bytes sent *)
IoRec(wr, block, addr, n, data) ==
  [wr |-> wr, block |-> U8(block), addr |-> U16(addr), n |-> n, data |-> data]

\* w5500_write of the n bytes of buf (buf is <<>> where the driver model does
\* not track the bytes of a frame)
w5500_write(block, addr, buf, n) == IoRec(TRUE, block, addr, n, buf)

\* uint8_t val
w5500_write_byte(block, addr, val) == w5500_write(block, addr, <<U8(val)>>, 1)

\* uint16_t val; buf[2] = {val >> 8, val & 255}
WordBytes(val) == <<U8(U16(val) \div 256), U16(val) % 256>>

w5500_write_word(block, addr, val) == w5500_write(block, addr, WordBytes(val), 2)

\* w5500_read into the n bytes of buf (the bytes of buf are what is sent)
w5500_read(block, addr, buf, n) == IoRec(FALSE, block, addr, n, buf)

(* value assembled by w5500_read_word from the two bytes the chip returned *)
w5500_read_word(b) == U16(b[1] * 256 + b[2])

(* ---------------- the SPI shim, as driven by w5500_spi_io ---------------- *)
\* one run of k identical calls on the shim (src/main.cpp:27-29) from bus
\* state b: s->begin drives chip select low, s->txn exchanges one byte,
\* s->end drives chip select high; b.xch counts the exchanges since the select
BusCall(b, c) ==
  IF b.fault # "none" \/ c.k = 0 THEN b
  ELSE CASE c.op = "begin" ->
              IF b.cs THEN [b EXCEPT !.fault = "select while selected"]
              ELSE [b EXCEPT !.cs = TRUE, !.xch = 0]
         [] c.op = "txn" ->
              IF ~b.cs THEN [b EXCEPT !.fault = "exchange while deselected"]
              ELSE [b EXCEPT !.xch = @ + c.k]
         [] OTHER -> [b EXCEPT !.cs = FALSE]

\* the bus state after the calls, made one after the other (the state after
\* the first call is fixed before the remaining calls are applied to it)
RECURSIVE SpiRun(_, _)
SpiRun(b, calls) ==
  IF calls = <<>> THEN b
  ELSE CHOOSE r \in { SpiRun(next, Tail(calls)) : next \in {BusCall(b, Head(calls))} } :
         TRUE

\* mutant: the transaction does not deselect the chip
SpiOps_NoEnd(t) ==
  << [op |-> "begin", k |-> 1], [op |-> "txn", k |-> 3], [op |-> "txn", k |-> t.n] >>

\* the shim calls of one w5500_spi_io (w5500.c:232-244): s->begin, the loop
\* of 3 s->txn over cmd[], the loop of len s->txn over the buffer, s->end
SpiOps(t) ==
  << [op |-> "begin", k |-> 1], [op |-> "txn", k |-> 3], [op |-> "txn", k |-> t.n],
     [op |-> "end", k |-> 1] >>

\* one w5500_spi_io on the bus; a transaction that ends with other than its
\* 3 + len exchanges is a fault
SpiIo(b, t) ==
  CHOOSE x \in { IF r.fault = "none" /\ r.xch # 3 + t.n
                   THEN [r EXCEPT !.fault = "byte count not completed"]
                   ELSE r : r \in {SpiRun(b, SpiOps(t))} } : TRUE

\* the bus state after the transactions ts, made one after the other
RECURSIVE BusRun(_, _)
BusRun(b, ts) ==
  IF ts = <<>> THEN b
  ELSE CHOOSE r \in { BusRun(next, Tail(ts)) : next \in {SpiIo(b, Head(ts))} } : TRUE

\* the transactions ts, made in order by the running step
BusDo(ts) ==
  \E r \in {BusRun([cs |-> cs, fault |-> fault, xch |-> 0], ts)} :
     /\ cs' = r.cs
     /\ fault' = r.fault

\* the transactions ts, made in order by the running step and recorded in log
Logged(ts) ==
  /\ log' = log \o ts
  /\ BusDo(ts)

\* s->end(s->spi) on its own (w5500.c:481)
BusEnd ==
  \E r \in {BusCall([cs |-> cs, fault |-> fault, xch |-> 0], [op |-> "end", k |-> 1])} :
     /\ cs' = r.cs
     /\ fault' = r.fault

(* ---------------- bounded wait ---------------- *)
\* mutant: the wait has no cap
WAIT_OR_FAIL_NoCap(max_iter, cond, cnt) ==
  IF ~cond THEN [exit |-> TRUE, passed |-> TRUE]
  ELSE [exit |-> FALSE, passed |-> TRUE]

\* mutant: the wait gives up when the count reaches max_iter
WAIT_OR_FAIL_AtCap(max_iter, cond, cnt) ==
  IF ~cond THEN [exit |-> TRUE, passed |-> TRUE]
  ELSE IF cnt + 1 >= max_iter THEN [exit |-> TRUE, passed |-> FALSE]
  ELSE [exit |-> FALSE, passed |-> TRUE]

(* one evaluation of the condition of WAIT_OR_FAIL with __count = cnt *)
WAIT_OR_FAIL(max_iter, cond, cnt) ==
  IF ~cond THEN [exit |-> TRUE, passed |-> TRUE]
  ELSE IF cnt + 1 > max_iter THEN [exit |-> TRUE, passed |-> FALSE]
  ELSE [exit |-> FALSE, passed |-> TRUE]

(* where control goes when the driver operation returns *)
RetPc ==
  CASE caller = "ethif_poll" -> "poll_deliver"
    [] caller = "ethif_output" -> "out_ret"
    [] caller = "ethif_init" -> "init_ret"
    [] OTHER -> "idle"

\* locals at the entry of a driver operation
EnterLocals(who, n, ea) ==
  /\ caller' = who
  /\ buflen' = n
  /\ ethaddr' = ea
  /\ sock_status' = -1
  /\ waits' = <<>>
  /\ count' = 0
  /\ passed' = TRUE
  /\ len' = 0
  /\ freesize' = 0
  /\ ptr' = 0
  /\ frame_len' = 0
  /\ payload_len' = 0
  /\ ir' = 0
  /\ done' = "none"
  /\ ret' = 0
  /\ ok' = FALSE
  /\ stage' = "none"
  /\ polled' = {}
  /\ cleared' = {}
  /\ bufWr' = 0

\* locals and observations at the entry of a driver operation
Enter(who, n, ea) ==
  /\ EnterLocals(who, n, ea)
  /\ log' = <<>>

Init ==
  /\ pc = "idle"
  /\ caller = "direct"
  /\ count = 0
  /\ passed = TRUE
  /\ buflen = 0
  /\ len = 0
  /\ freesize = 0
  /\ ptr = 0
  /\ frame_len = 0
  /\ payload_len = 0
  /\ ir = 0
  /\ ethaddr = FALSE
  /\ sock_status = -1
  /\ waits = <<>>
  /\ done = "none"
  /\ ret = 0
  /\ ok = FALSE
  /\ stage = "none"
  /\ log = <<>>
  /\ polled = {}
  /\ cleared = {}
  /\ bufWr = 0
  /\ link_up = FALSE
  /\ connected = FALSE
  /\ hadPoll = FALSE
  /\ notes = <<>>
  /\ pbuf = "none"
  /\ err = "none"
  /\ mem = [c \in {} |-> 0]
  /\ lastW = [kind |-> "none"]
  /\ lastR = [kind |-> "none"]
  /\ lastT = [kind |-> "none"]
  /\ irq = TRUE
  /\ irq_state = TRUE
  /\ isr = "none"
  /\ wMax = 0
  /\ wCount = 0
  /\ wConds = <<>>
  /\ wRes = "idle"
  /\ wResult = TRUE
  /\ cs = FALSE
  /\ fault = "none"
  /\ desel = 0
  /\ phy = -1
  /\ rxCalls = 0
  /\ inputs = <<>>
  /\ alloc = "none"
  /\ frees = 0
  /\ plen = -1
  /\ irReg = 0
  /\ irOwn = 0
  /\ sends = <<>>
  /\ ownSeen = 0

(* ======================= w5500_tx (w5500.c:395-467) ===================== *)
TxReturn(v, s) ==
  /\ pc' = RetPc
  /\ done' = "tx"
  /\ ret' = v
  /\ stage' = s
  /\ count' = 0

\* entry: len = buflen; if (0 == len) return 0
TxEnter(who, n) ==
  /\ Enter(who, n, FALSE)
  /\ pc' = "tx_fsr"
  /\ desel' = 0
  /\ UNCHANGED <<cs, fault>>

TxZeroLen ==
  /\ pc = "tx_fsr"
  /\ buflen = 0
  /\ TxReturn(0, "tx_zero_len")
  /\ UNCHANGED <<caller, passed, buflen, len, freesize, ptr, frame_len,
                 payload_len, ir, ethaddr, sock_status, waits, ok, log, polled, cleared, bufWr>>
  /\ UNCHANGED <<adp, iov, irqv, wtv, chipv, busv, pollv, ownv>>

\* mutant: the free-space check is off by one (lets n = free + 1 through)
TxFsrOutcome_OffByOne(ps, fs, n) ==
  IF ~ps THEN "tx_fsr_timeout"
  ELSE IF fs + 1 < n THEN "tx_no_space"
  ELSE "tx_sr"

\* mutant: the free-space check rejects n = free
TxFsrOutcome_RejectEqual(ps, fs, n) ==
  IF ~ps THEN "tx_fsr_timeout"
  ELSE IF fs <= n THEN "tx_no_space"
  ELSE "tx_sr"

\* after the free-size wait (w5500.c:406-418): the return taken, or on to the
\* status read
TxFsrOutcome(ps, fs, n) ==
  IF ~ps THEN "tx_fsr_timeout"
  ELSE IF fs < n THEN "tx_no_space"
  ELSE "tx_sr"

\* one evaluation of !w5500_read_tx_rsr_stable(s, &freesize), then the
\* free-space check when the wait is over
TxFsrWait ==
  /\ pc = "tx_fsr"
  /\ buflen # 0
  /\ \E a \in FsrReads, b \in FsrReads :
       LET tmp == w5500_read_word(a)
           fs == w5500_read_word(b)
           w == WAIT_OR_FAIL(MAX_LOOP_ITERATIONS, ~(fs = tmp), count)
           out == TxFsrOutcome(w.passed, fs, buflen)
       IN /\ freesize' = fs
          /\ len' = buflen
          /\ polled' = polled \cup {<<SOCKET0_REGISTER, Sn_TX_FSR>>}
          /\ BusDo(<<w5500_read(SOCKET0_REGISTER, Sn_TX_FSR, <<0, 0>>, 2),
                     w5500_read(SOCKET0_REGISTER, Sn_TX_FSR, <<0, 0>>, 2)>>)
          /\ passed' = w.passed
          /\ IF ~w.exit
               THEN /\ count' = count + 1
                    /\ UNCHANGED <<pc, done, ret, stage, waits>>
               ELSE /\ waits' = Append(waits, w.passed)
                    /\ IF out = "tx_sr"
                         THEN /\ pc' = out
                              /\ count' = 0
                              /\ UNCHANGED <<done, ret, stage>>
                         ELSE TxReturn(0, out)
  /\ UNCHANGED <<caller, buflen, ptr, frame_len, payload_len, ir, ethaddr,
                 sock_status, ok, log, cleared, bufWr>>
  /\ UNCHANGED <<adp, iov, irqv, wtv, chipv, desel, pollv, ownv>>

\* mutant: only the closed status aborts the transmit
TxSockClosed_OnlyClosed(st) == st = SOCK_CLOSED

TxSockClosed(st) ==
  \/ st = SOCK_CLOSED
  \/ st = SOCK_CLOSING
  \/ st = SOCK_TIME_WAIT
  \/ st = SOCK_CLOSE_WAIT

\* sock_status = w5500_read_byte(Sn_SR) and the closed-socket check
TxReadStatus ==
  /\ pc = "tx_sr"
  /\ \E st \in SrReads :
       /\ sock_status' = st
       /\ Logged(<< w5500_read(SOCKET0_REGISTER, Sn_SR, <<0>>, 1) >>)
       /\ IF TxSockClosed(st)
            THEN TxReturn(0, "tx_closed")
            ELSE /\ pc' = "tx_rd_wr"
                 /\ UNCHANGED <<done, ret, stage, count>>
  /\ UNCHANGED <<caller, passed, buflen, len, freesize, ptr, frame_len,
                 payload_len, ir, ethaddr, waits, ok, polled, cleared, bufWr>>
  /\ UNCHANGED <<adp, iov, irqv, wtv, chipv, desel, pollv, ownv>>

\* ptr = w5500_read_word(Sn_TX_WR)
TxReadPtr ==
  /\ pc = "tx_rd_wr"
  /\ \E b \in PtrReads :
       /\ ptr' = w5500_read_word(b)
       /\ Logged(<< w5500_read(SOCKET0_REGISTER, Sn_TX_WR, <<0, 0>>, 2) >>)
  /\ pc' = "tx_wr_buf"
  /\ UNCHANGED <<caller, count, passed, buflen, len, freesize, frame_len,
                 payload_len, ir, ethaddr, sock_status, waits, done, ret, ok, stage, polled,
                 cleared, bufWr>>
  /\ UNCHANGED <<adp, iov, irqv, wtv, chipv, desel, pollv, ownv>>

\* mutant: the payload write is left out
TxWriteBuf_Skip ==
  /\ pc = "tx_wr_buf"
  /\ pc' = "tx_wr_ptr"
  /\ UNCHANGED drv_locals
  /\ UNCHANGED <<adp, iov, irqv, wtv, chipv, busv, pollv, ownv>>

\* w5500_write(SOCKET0_TX_BUFFER, ptr, buf, len)
TxWriteBuf ==
  /\ pc = "tx_wr_buf"
  /\ Logged(<< w5500_write(SOCKET0_TX_BUFFER, ptr, <<>>, len) >>)
  /\ pc' = "tx_wr_ptr"
  /\ UNCHANGED <<caller, count, passed, buflen, len, freesize, ptr, frame_len,
                 payload_len, ir, ethaddr, sock_status, waits, done, ret, ok, stage, polled,
                 cleared, bufWr>>
  /\ UNCHANGED <<adp, iov, irqv, wtv, chipv, desel, pollv, ownv>>

\* mutant: the write pointer is advanced two bytes too far
TxNextPtr_PlusTwo(p, n) == p + n + 2

\* the cursor written back: ptr + len
TxNextPtr(p, n) == p + n

\* w5500_write_word(Sn_TX_WR, ptr + len)
TxWritePtr ==
  /\ pc = "tx_wr_ptr"
  /\ Logged(<< w5500_write_word(SOCKET0_REGISTER, Sn_TX_WR,
                                TxNextPtr(ptr, len)) >>)
  /\ pc' = "tx_wr_cmd"
  /\ UNCHANGED <<caller, count, passed, buflen, len, freesize, ptr, frame_len,
                 payload_len, ir, ethaddr, sock_status, waits, done, ret, ok, stage, polled,
                 cleared, bufWr>>
  /\ UNCHANGED <<adp, iov, irqv, wtv, chipv, desel, pollv, ownv>>

\* w5500_write_byte(Sn_CR, Sn_CR_SEND)
TxSend ==
  /\ pc = "tx_wr_cmd"
  /\ Logged(<< w5500_write_byte(SOCKET0_REGISTER, Sn_CR, Sn_CR_SEND) >>)
  /\ pc' = "tx_cr"
  /\ UNCHANGED <<caller, count, passed, buflen, len, freesize, ptr, frame_len,
                 payload_len, ir, ethaddr, sock_status, waits, done, ret, ok, stage, polled,
                 cleared, bufWr>>
  /\ UNCHANGED <<adp, iov, irqv, wtv, desel, pollv, ownv>>

\* the send command, with a chip whose Sn_IR is not tracked
TxWriteCmd ==
  /\ TxSend
  /\ UNCHANGED chipv

\* one evaluation of (0 != w5500_read_byte(Sn_CR))
TxCrWait ==
  /\ pc = "tx_cr"
  /\ \E v \in CrReads :
       LET w == WAIT_OR_FAIL(MAX_LOOP_ITERATIONS, 0 # v, count)
       IN /\ polled' = polled \cup {<<SOCKET0_REGISTER, Sn_CR>>}
          /\ BusDo(<<w5500_read(SOCKET0_REGISTER, Sn_CR, <<0>>, 1)>>)
          /\ passed' = w.passed
          /\ IF ~w.exit
               THEN /\ count' = count + 1
                    /\ UNCHANGED <<pc, done, ret, stage, waits>>
               ELSE /\ waits' = Append(waits, w.passed)
                    /\ IF ~w.passed
                         THEN TxReturn(0, "tx_cr_timeout")
                         ELSE /\ pc' = "tx_ir"
                              /\ count' = 0
                              /\ UNCHANGED <<done, ret, stage>>
  /\ UNCHANGED <<caller, buflen, len, freesize, ptr, frame_len, payload_len,
                 ir, ethaddr, sock_status, ok, log, cleared, bufWr>>
  /\ UNCHANGED <<adp, iov, irqv, wtv, chipv, desel, pollv, ownv>>

\* w5500_read_ir_and_clear: the masked value read, written back when non-zero
w5500_read_ir_and_clear(v) == BitAnd(v, 31)

\* Sn_IR_SENDOK | Sn_IR_TIMEOUT | Sn_IR_DISCON
TxIrMask == BitOr(Sn_IR_SENDOK, BitOr(Sn_IR_TIMEOUT, Sn_IR_DISCON))

\* mutant: only the flags that end the wait are written back
IrTxns_OnlyEnding(r) ==
  << w5500_read(SOCKET0_REGISTER, Sn_IR, <<0>>, 1) >>
  \o (IF BitAnd(r, TxIrMask) # 0
        THEN << w5500_write_byte(SOCKET0_REGISTER, Sn_IR, r) >>
        ELSE << >>)

\* the transactions of one w5500_read_ir_and_clear that stored r in *ir: the
\* read, then if (*ir) the write of *ir back to Sn_IR
IrTxns(r) ==
  << w5500_read(SOCKET0_REGISTER, Sn_IR, <<0>>, 1) >>
  \o (IF r # 0
        THEN << w5500_write_byte(SOCKET0_REGISTER, Sn_IR, r) >>
        ELSE << >>)

\* the values those transactions write to Sn_IR
IrWritten(r) ==
  { IrTxns(r)[i].data[1] : i \in { j \in 1..Len(IrTxns(r)) : IrTxns(r)[j].wr } }

\* value w5500_tx returns once the completion wait is over (w5500.c:451-466)
TxResult(irv, n) ==
  IF BitAnd(irv, BitOr(Sn_IR_TIMEOUT, Sn_IR_DISCON)) # 0 THEN 0 ELSE n

\* one evaluation of (0 == (w5500_read_ir_and_clear(s, &ir) & (SENDOK|TIMEOUT|DISCON)))
TxIrRead(V) ==
  /\ pc = "tx_ir"
  /\ \E v \in V :
       LET r == w5500_read_ir_and_clear(v)
           w == WAIT_OR_FAIL(MAX_LOOP_ITERATIONS, 0 = BitAnd(r, TxIrMask), count)
       IN /\ ir' = r
          /\ polled' = polled \cup {<<SOCKET0_REGISTER, Sn_IR>>}
          /\ BusDo(IrTxns(r))
          /\ cleared' = cleared \cup IrWritten(r)
          /\ passed' = w.passed
          /\ IF ~w.exit
               THEN /\ count' = count + 1
                    /\ UNCHANGED <<pc, done, ret, stage, waits>>
               ELSE /\ waits' = Append(waits, w.passed)
                    /\ TxReturn(TxResult(r, len), "tx_end")
  /\ UNCHANGED <<caller, buflen, len, freesize, ptr, frame_len, payload_len,
                 ethaddr, sock_status, ok, log, bufWr>>
  /\ UNCHANGED <<adp, iov, irqv, wtv, desel, pollv, ownv>>

\* the completion wait, with a chip that may return any of IrReads
TxIrWait ==
  /\ TxIrRead(IrReads)
  /\ UNCHANGED chipv

w5500_tx ==
  \/ TxZeroLen
  \/ TxFsrWait
  \/ TxReadStatus
  \/ TxReadPtr
  \/ TxWriteBuf
  \/ TxWritePtr
  \/ TxWriteCmd
  \/ TxCrWait
  \/ TxIrWait

\* a caller invokes driver->tx(buf, n, s) directly
TxCall(N) ==
  /\ pc = "idle"
  /\ \E n \in N : TxEnter("direct", n)
  /\ phy' = -1
  /\ UNCHANGED <<rxCalls, inputs, ownv>>
  /\ UNCHANGED <<adp, iov, irqv, wtv>>

CallTx ==
  /\ TxCall(TxLens)
  /\ UNCHANGED chipv

(* ======================= w5500_rx (w5500.c:302-354) ===================== *)
RxReturn(v, s) ==
  /\ pc' = RetPc
  /\ done' = "rx"
  /\ ret' = v
  /\ stage' = s
  /\ count' = 0

RxEnter(who, n) ==
  /\ Enter(who, n, FALSE)
  /\ pc' = "rx_rsr"
  /\ desel' = 0
  /\ UNCHANGED <<cs, fault>>

\* mutant: the empty check is missing
RxRsrOutcome_NoEmptyCheck(ps, l) ==
  IF ~ps THEN "rx_rsr_timeout" ELSE "rx_rd_ptr"

\* mutant: the timeout check is missing
RxRsrOutcome_NoTimeoutCheck(ps, l) ==
  IF l = 0 THEN "rx_empty" ELSE "rx_rd_ptr"

\* after the received-size wait (w5500.c:309-317): the return taken, or on to
\* the cursor read
RxRsrOutcome(ps, l) ==
  IF ~ps THEN "rx_rsr_timeout"
  ELSE IF l = 0 THEN "rx_empty"
  ELSE "rx_rd_ptr"

\* one evaluation of !w5500_read_rx_rsr_stable(s, &len), then the
\* empty check when the wait is over
RxRsrWait ==
  /\ pc = "rx_rsr"
  /\ \E a \in RsrReads, b \in RsrReads :
       LET tmp == w5500_read_word(a)
           l == w5500_read_word(b)
           w == WAIT_OR_FAIL(MAX_LOOP_ITERATIONS, ~(l = tmp), count)
           out == RxRsrOutcome(w.passed, l)
       IN /\ len' = l
          /\ polled' = polled \cup {<<SOCKET0_REGISTER, Sn_RX_RSR>>}
          /\ BusDo(<<w5500_read(SOCKET0_REGISTER, Sn_RX_RSR, <<0, 0>>, 2),
                     w5500_read(SOCKET0_REGISTER, Sn_RX_RSR, <<0, 0>>, 2)>>)
          /\ passed' = w.passed
          /\ IF ~w.exit
               THEN /\ count' = count + 1
                    /\ UNCHANGED <<pc, done, ret, stage, waits>>
               ELSE /\ waits' = Append(waits, w.passed)
                    /\ IF out = "rx_rd_ptr"
                         THEN /\ pc' = out
                              /\ count' = 0
                              /\ UNCHANGED <<done, ret, stage>>
                         ELSE RxReturn(0, out)
  /\ UNCHANGED <<caller, buflen, freesize, ptr, frame_len, payload_len, ir,
                 ethaddr, sock_status, ok, log, cleared, bufWr>>
  /\ UNCHANGED <<adp, iov, irqv, wtv, chipv, desel, pollv, ownv>>

\* ptr = w5500_read_word(Sn_RX_RD)
RxReadPtr ==
  /\ pc = "rx_rd_ptr"
  /\ \E b \in PtrReads :
       /\ ptr' = w5500_read_word(b)
       /\ Logged(<< w5500_read(SOCKET0_REGISTER, Sn_RX_RD, <<0, 0>>, 2) >>)
  /\ pc' = "rx_rd_hdr"
  /\ UNCHANGED <<caller, count, passed, buflen, len, freesize, frame_len,
                 payload_len, ir, ethaddr, sock_status, waits, done, ret, ok, stage, polled,
                 cleared, bufWr>>
  /\ UNCHANGED <<adp, iov, irqv, wtv, chipv, desel, pollv, ownv>>

\* frame_len = (header[0] << 8) | header[1]
RxFrameLen(h) == U16(h[1] * 256 + h[2])

\* payload_len = frame_len > 2 ? frame_len - 2 : 0
RxPayloadLen(fl) == IF fl > 2 THEN fl - 2 ELSE 0

\* mutant: the capacity check is missing
RxTooLarge_Never(pl, cap) == FALSE

\* mutant: the capacity check is off by one
RxTooLarge_OffByOne(pl, cap) == pl > cap + 1

\* if (payload_len > buflen)
RxTooLarge(pl, cap) == pl > cap

\* w5500_read(SOCKET0_RX_BUFFER, ptr, header, 2), frame_len, payload_len and
\* the capacity check
RxReadHeader ==
  /\ pc = "rx_rd_hdr"
  /\ \E h \in HeaderReads :
       LET fl == RxFrameLen(h)
           pl == RxPayloadLen(fl)
       IN /\ frame_len' = fl
          /\ Logged(<< w5500_read(SOCKET0_RX_BUFFER, ptr, <<>>, 2) >>)
          /\ IF RxTooLarge(pl, buflen)
               THEN /\ payload_len' = 0
                    /\ pc' = "rx_wr_ptr"
               ELSE /\ payload_len' = pl
                    /\ pc' = "rx_rd_payload"
  /\ UNCHANGED <<caller, count, passed, buflen, len, freesize, ptr, ir,
                 ethaddr, sock_status, waits, done, ret, ok, stage, polled, cleared, bufWr>>
  /\ UNCHANGED <<adp, iov, irqv, wtv, chipv, desel, pollv, ownv>>

\* mutant: the payload is read from the cursor itself (the prefix included)
RxPayloadAddr_Prefix(p) == p

\* ring address of the payload: ptr + 2
RxPayloadAddr(p) == p + 2

\* mutant: the payload read is left out
RxReadPayload_Skip ==
  /\ pc = "rx_rd_payload"
  /\ pc' = "rx_wr_ptr"
  /\ UNCHANGED drv_locals
  /\ UNCHANGED <<adp, iov, irqv, wtv, chipv, busv, pollv, ownv>>

\* w5500_read(SOCKET0_RX_BUFFER, ptr + 2, buf, payload_len)
RxReadPayload ==
  /\ pc = "rx_rd_payload"
  /\ Logged(<< w5500_read(SOCKET0_RX_BUFFER, RxPayloadAddr(ptr), <<>>,
                          payload_len) >>)
  /\ bufWr' = payload_len
  /\ pc' = "rx_wr_ptr"
  /\ UNCHANGED <<caller, count, passed, buflen, len, freesize, ptr, frame_len,
                 payload_len, ir, ethaddr, sock_status, waits, done, ret, ok, stage, polled,
                 cleared>>
  /\ UNCHANGED <<adp, iov, irqv, wtv, chipv, desel, pollv, ownv>>

\* mutant: the cursor advances by the payload length, not the prefix
RxNextPtr_Payload(p, fl) == p + RxPayloadLen(fl)

\* the cursor written back: ptr + frame_len
RxNextPtr(p, fl) == p + fl

\* w5500_write_word(Sn_RX_RD, ptr + frame_len)
RxWritePtr ==
  /\ pc = "rx_wr_ptr"
  /\ Logged(<< w5500_write_word(SOCKET0_REGISTER, Sn_RX_RD,
                                RxNextPtr(ptr, frame_len)) >>)
  /\ pc' = "rx_wr_cmd"
  /\ UNCHANGED <<caller, count, passed, buflen, len, freesize, ptr, frame_len,
                 payload_len, ir, ethaddr, sock_status, waits, done, ret, ok, stage, polled,
                 cleared, bufWr>>
  /\ UNCHANGED <<adp, iov, irqv, wtv, chipv, desel, pollv, ownv>>

\* w5500_write_byte(Sn_CR, Sn_CR_RECV)
RxWriteCmd ==
  /\ pc = "rx_wr_cmd"
  /\ Logged(<< w5500_write_byte(SOCKET0_REGISTER, Sn_CR, Sn_CR_RECV) >>)
  /\ pc' = "rx_cr"
  /\ UNCHANGED <<caller, count, passed, buflen, len, freesize, ptr, frame_len,
                 payload_len, ir, ethaddr, sock_status, waits, done, ret, ok, stage, polled,
                 cleared, bufWr>>
  /\ UNCHANGED <<adp, iov, irqv, wtv, chipv, desel, pollv, ownv>>

\* mutant: the timeout of the command wait is not reported
RxCrOutcome_IgnoreTimeout(ps, pl) == [ret |-> pl, stage |-> "rx_end"]

\* after the command wait (w5500.c:342-353): return 0 on timeout, else payload_len
RxCrOutcome(ps, pl) ==
  IF ~ps THEN [ret |-> 0, stage |-> "rx_cr_timeout"]
  ELSE [ret |-> pl, stage |-> "rx_end"]

\* one evaluation of (w5500_read_byte(Sn_CR)), then the return
RxCrWait ==
  /\ pc = "rx_cr"
  /\ \E v \in CrReads :
       LET w == WAIT_OR_FAIL(MAX_LOOP_ITERATIONS, v # 0, count)
       IN /\ polled' = polled \cup {<<SOCKET0_REGISTER, Sn_CR>>}
          /\ BusDo(<<w5500_read(SOCKET0_REGISTER, Sn_CR, <<0>>, 1)>>)
          /\ passed' = w.passed
          /\ IF ~w.exit
               THEN /\ count' = count + 1
                    /\ UNCHANGED <<pc, done, ret, stage, waits>>
               ELSE /\ waits' = Append(waits, w.passed)
                    /\ LET o == RxCrOutcome(w.passed, payload_len)
                       IN RxReturn(o.ret, o.stage)
  /\ UNCHANGED <<caller, buflen, len, freesize, ptr, frame_len, payload_len,
                 ir, ethaddr, sock_status, ok, log, cleared, bufWr>>
  /\ UNCHANGED <<adp, iov, irqv, wtv, chipv, desel, pollv, ownv>>

w5500_rx ==
  \/ RxRsrWait
  \/ RxReadPtr
  \/ RxReadHeader
  \/ RxReadPayload
  \/ RxWritePtr
  \/ RxWriteCmd
  \/ RxCrWait

\* a caller invokes driver->rx(buf, cap, s) directly
CallRx ==
  /\ pc = "idle"
  /\ \E cap \in RxCaps : RxEnter("direct", cap)
  /\ phy' = -1
  /\ UNCHANGED <<rxCalls, inputs, ownv>>
  /\ UNCHANGED <<adp, iov, irqv, wtv, chipv>>

(* ====================== w5500_init (w5500.c:475-514) ==================== *)
InitReturn(v, s) ==
  /\ pc' = RetPc
  /\ done' = "init"
  /\ ok' = v
  /\ stage' = s
  /\ count' = 0

\* s->end(s->spi): the chip is deselected; no register access yet
InitEnter(who, ea) ==
  /\ Enter(who, 0, ea)
  /\ pc' = "init_wr_rst"
  /\ BusEnd
  /\ desel' = 1

\* w5500_write_byte(COMMON_REGISTER, MR, MR_RST)
InitWriteReset ==
  /\ pc = "init_wr_rst"
  /\ Logged(<< w5500_write_byte(COMMON_REGISTER, MR, MR_RST) >>)
  /\ pc' = "init_mr"
  /\ UNCHANGED <<caller, count, passed, buflen, len, freesize, ptr, frame_len,
                 payload_len, ir, ethaddr, sock_status, waits, done, ret, ok, stage, polled,
                 cleared, bufWr>>
  /\ UNCHANGED <<adp, iov, irqv, wtv, chipv, desel, pollv, ownv>>

\* mutant: a reset that timed out is ignored
InitMrOutcome_Ignore(ps) == "init_cfg"

\* after the reset wait (w5500.c:487-491): return false, or on to the configuration
InitMrOutcome(ps) == IF ~ps THEN "init_rst_timeout" ELSE "init_cfg"

\* one evaluation of (0 != (w5500_read_byte(MR) & MR_RST))
InitMrWait ==
  /\ pc = "init_mr"
  /\ \E v \in MrReads :
       LET w == WAIT_OR_FAIL(MAX_LOOP_ITERATIONS, 0 # BitAnd(v, MR_RST), count)
       IN /\ polled' = polled \cup {<<COMMON_REGISTER, MR>>}
          /\ BusDo(<<w5500_read(COMMON_REGISTER, MR, <<0>>, 1)>>)
          /\ passed' = w.passed
          /\ IF ~w.exit
               THEN /\ count' = count + 1
                    /\ UNCHANGED <<pc, done, ok, stage, waits>>
               ELSE /\ waits' = Append(waits, w.passed)
                    /\ IF InitMrOutcome(w.passed) # "init_cfg"
                         THEN InitReturn(FALSE, InitMrOutcome(w.passed))
                         ELSE /\ pc' = "init_cfg"
                              /\ count' = 0
                              /\ UNCHANGED <<done, ok, stage>>
  /\ UNCHANGED <<caller, buflen, len, freesize, ptr, frame_len, payload_len,
                 ir, ethaddr, sock_status, ret, log, cleared, bufWr>>
  /\ UNCHANGED <<adp, iov, irqv, wtv, chipv, desel, pollv, ownv>>

\* ~x of a C int
BitNot(x) == -x - 1

\* mutant: the socket is opened before its mode is written
InitWrites_OpenFirst(ea) ==
  << w5500_write_byte(COMMON_REGISTER, PHYCFGR, 0),
     w5500_write_byte(COMMON_REGISTER, PHYCFGR,
        BitOr(BitOr(BitNot(PHYCFGR_RST), PHYCFGR_OPMD), PHYCFGR_OPMDC_ALLA)),
     w5500_write_byte(SOCKET0_REGISTER, Sn_RXBUF_SIZE, 16),
     w5500_write_byte(SOCKET0_REGISTER, Sn_TXBUF_SIZE, 16),
     w5500_write_byte(SOCKET0_REGISTER, Sn_CR, Sn_CR_OPEN),
     w5500_write_byte(SOCKET0_REGISTER, Sn_MR, Sn_MR_MACRAW) >>

\* mutant: the open command is written a second time
InitWrites_OpenTwice(ea) ==
  << w5500_write_byte(COMMON_REGISTER, PHYCFGR, 0),
     w5500_write_byte(COMMON_REGISTER, PHYCFGR,
        BitOr(BitOr(BitNot(PHYCFGR_RST), PHYCFGR_OPMD), PHYCFGR_OPMDC_ALLA)),
     w5500_write_byte(SOCKET0_REGISTER, Sn_RXBUF_SIZE, 16),
     w5500_write_byte(SOCKET0_REGISTER, Sn_TXBUF_SIZE, 16),
     w5500_write_byte(SOCKET0_REGISTER, Sn_MR, Sn_MR_MACRAW),
     w5500_write_byte(SOCKET0_REGISTER, Sn_CR, Sn_CR_OPEN),
     w5500_write_byte(SOCKET0_REGISTER, Sn_CR, Sn_CR_OPEN) >>

\* the writes of w5500.c:493-503, in order
InitWrites(ea) ==
  << w5500_write_byte(COMMON_REGISTER, PHYCFGR, 0),
     w5500_write_byte(COMMON_REGISTER, PHYCFGR,
        BitOr(BitOr(BitNot(PHYCFGR_RST), PHYCFGR_OPMD), PHYCFGR_OPMDC_ALLA)),
     w5500_write_byte(SOCKET0_REGISTER, Sn_RXBUF_SIZE, 16),
     w5500_write_byte(SOCKET0_REGISTER, Sn_TXBUF_SIZE, 16) >>
  \o (IF ea
        THEN << w5500_write(COMMON_REGISTER, SHAR, <<>>, 6),
                w5500_write_byte(SOCKET0_REGISTER, Sn_MR,
                                 BitOr(Sn_MR_MFEN, Sn_MR_MACRAW)) >>
        ELSE << w5500_write_byte(SOCKET0_REGISTER, Sn_MR, Sn_MR_MACRAW) >>)
  \o << w5500_write_byte(SOCKET0_REGISTER, Sn_CR, Sn_CR_OPEN) >>

InitConfigure ==
  /\ pc = "init_cfg"
  /\ Logged(InitWrites(ethaddr))
  /\ pc' = "init_cr"
  /\ UNCHANGED <<caller, count, passed, buflen, len, freesize, ptr, frame_len,
                 payload_len, ir, ethaddr, sock_status, waits, done, ret, ok, stage, polled,
                 cleared, bufWr>>
  /\ UNCHANGED <<adp, iov, irqv, wtv, chipv, desel, pollv, ownv>>

\* one evaluation of (0 != w5500_read_byte(Sn_CR))
InitCrWait ==
  /\ pc = "init_cr"
  /\ \E v \in CrReads :
       LET w == WAIT_OR_FAIL(MAX_LOOP_ITERATIONS, 0 # v, count)
       IN /\ polled' = polled \cup {<<SOCKET0_REGISTER, Sn_CR>>}
          /\ BusDo(<<w5500_read(SOCKET0_REGISTER, Sn_CR, <<0>>, 1)>>)
          /\ passed' = w.passed
          /\ IF ~w.exit
               THEN /\ count' = count + 1
                    /\ UNCHANGED <<pc, done, ok, stage, waits>>
               ELSE /\ waits' = Append(waits, w.passed)
                    /\ IF ~w.passed
                         THEN InitReturn(FALSE, "init_cr_timeout")
                         ELSE /\ pc' = "init_sr"
                              /\ count' = 0
                              /\ UNCHANGED <<done, ok, stage>>
  /\ UNCHANGED <<caller, buflen, len, freesize, ptr, frame_len, payload_len,
                 ir, ethaddr, sock_status, ret, log, cleared, bufWr>>
  /\ UNCHANGED <<adp, iov, irqv, wtv, chipv, desel, pollv, ownv>>

\* mutant: any status but closed counts as open
InitStatusOk_NotClosed(st) == st # SOCK_CLOSED

\* return w5500_read_byte(Sn_SR) == SOCK_MACRAW
InitStatusOk(st) == st = SOCK_MACRAW

InitReadStatus ==
  /\ pc = "init_sr"
  /\ \E st \in SrReads :
       /\ sock_status' = st
       /\ Logged(<< w5500_read(SOCKET0_REGISTER, Sn_SR, <<0>>, 1) >>)
       /\ InitReturn(InitStatusOk(st), "init_end")
  /\ UNCHANGED <<caller, passed, buflen, len, freesize, ptr, frame_len,
                 payload_len, ir, ethaddr, waits, ret, polled, cleared, bufWr>>
  /\ UNCHANGED <<adp, iov, irqv, wtv, chipv, desel, pollv, ownv>>

w5500_init ==
  \/ InitWriteReset
  \/ InitMrWait
  \/ InitConfigure
  \/ InitCrWait
  \/ InitReadStatus

\* a caller invokes driver->init(s) directly
CallInit ==
  /\ pc = "idle"
  /\ \E ea \in BOOLEAN : InitEnter("direct", ea)
  /\ phy' = -1
  /\ UNCHANGED <<rxCalls, inputs, ownv>>
  /\ UNCHANGED <<adp, iov, irqv, wtv, chipv>>

(* ====================== w5500_poll (w5500.c:523-526) ==================== *)
\* mutant: the link is taken from bit 1 (the speed bit)
w5500_poll_Bit1(v, s1) == IF s1 THEN BitAnd(v, 2) # 0 ELSE FALSE

\* s1 ? w5500_read_byte(PHYCFGR) & PHYCFGR_LNK_ON : false, as a bool
w5500_poll(v, s1) == IF s1 THEN BitAnd(v, PHYCFGR_LNK_ON) # 0 ELSE FALSE

\* the register read made by w5500_poll, none when s1 is false
PollReads(s1) ==
  IF s1 THEN <<w5500_read(COMMON_REGISTER, PHYCFGR, <<0>>, 1)>> ELSE <<>>

\* a caller invokes driver->poll(s, s1) directly
CallPoll ==
  /\ pc = "idle"
  /\ \E s1 \in BOOLEAN, v \in PhyReads :
       /\ ok' = w5500_poll(v, s1)
       /\ log' = PollReads(s1)
       /\ BusDo(PollReads(s1))
       /\ phy' = IF s1 THEN v ELSE -1
  /\ pc' = "idle"
  /\ caller' = "direct"
  /\ done' = "poll"
  /\ stage' = "poll_end"
  /\ buflen' = 0
  /\ ethaddr' = FALSE
  /\ sock_status' = -1
  /\ waits' = <<>>
  /\ count' = 0
  /\ passed' = TRUE
  /\ len' = 0
  /\ freesize' = 0
  /\ ptr' = 0
  /\ frame_len' = 0
  /\ payload_len' = 0
  /\ ir' = 0
  /\ ret' = 0
  /\ polled' = {}
  /\ cleared' = {}
  /\ bufWr' = 0
  /\ desel' = 0
  /\ UNCHANGED <<rxCalls, inputs, ownv>>
  /\ UNCHANGED <<adp, iov, irqv, wtv, chipv>>

(* ======================= ethif_poll (ethif.c:33-68) ===================== *)
\* netif_set_link_up / netif_set_link_down: the flag after the call
netif_set_link(up) == up

\* mutant: the notification is issued on every poll
EthifLinkChanged_Always(c, up) == TRUE

\* if (connected != netif_is_link_up(netif))
EthifLinkChanged(c, up) == c # up

\* bool connected = driver->poll(ethif, true); the notification when it
\* differs from netif_is_link_up(netif)
EthifPollLink ==
  /\ pc = "idle"
  /\ \E v \in PhyReads :
       LET c == w5500_poll(v, TRUE)
       IN /\ connected' = c
          /\ IF EthifLinkChanged(c, link_up)
               THEN /\ link_up' = netif_set_link(c)
                    /\ notes' = <<IF c THEN "up" ELSE "down">>
               ELSE /\ link_up' = link_up
                    /\ notes' = <<>>
          /\ phy' = v
  /\ EnterLocals("ethif_poll", 0, FALSE)
  /\ log' = PollReads(TRUE)
  /\ BusDo(PollReads(TRUE))
  /\ desel' = 0
  /\ rxCalls' = 0
  /\ inputs' = <<>>
  /\ alloc' = "none"
  /\ frees' = 0
  /\ plen' = -1
  /\ pc' = "poll_alloc"
  /\ hadPoll' = TRUE
  /\ pbuf' = "none"
  /\ err' = "none"
  /\ UNCHANGED <<iov, irqv, wtv, chipv>>

\* mutant: a chain is used as if it were one buffer
EthifUsable_Chain(a) == a # "null"

\* if (p && p->next == NULL)
EthifUsable(a) == a = "single"

\* struct pbuf *p = pbuf_alloc(PBUF_RAW, PBUF_POOL_BUFSIZE, PBUF_POOL):
\* NULL, one buffer of PBUF_POOL_BUFSIZE bytes, or a chain
EthifPollAlloc ==
  /\ pc = "poll_alloc"
  /\ \E a \in {"null", "single", "chain"} :
       /\ alloc' = a
       /\ IF EthifUsable(a)
            THEN /\ RxEnter("ethif_poll", PBUF_POOL_BUFSIZE)
                 /\ pbuf' = "held"
                 /\ rxCalls' = 1
                 /\ UNCHANGED <<notes, frees>>
            ELSE /\ IF a # "null"
                      THEN /\ pbuf' = "freed"
                           /\ frees' = frees + 1
                      ELSE /\ pbuf' = "none"
                           /\ UNCHANGED frees
                 /\ pc' = "idle"
                 /\ notes' = <<>>
                 /\ UNCHANGED drv_locals
                 /\ UNCHANGED <<busv, rxCalls>>
  /\ UNCHANGED <<link_up, connected, hadPoll, err>>
  /\ UNCHANGED <<iov, irqv, wtv, chipv, phy, inputs, plen>>

\* mutant: the buffer is handed to netif->input whatever driver->rx returned
EthifDelivers_Always(n) == TRUE

\* if (len > 0)
EthifDelivers(n) == n > 0

\* mutant: the buffer is freed although netif->input accepted it
EthifKeeps_Never(r) == FALSE

\* if (netif->input(p, netif) == ERR_OK) return;  (pbuf_free is not reached)
EthifKeeps(r) == r = "ERR_OK"

\* after driver->rx returned: netif->input(p, netif) when len > 0, else pbuf_free
EthifPollDeliver ==
  /\ pc = "poll_deliver"
  /\ IF EthifDelivers(ret)
       THEN \E r \in {"ERR_OK", "ERR_MEM"} :
              /\ pbuf' = IF EthifKeeps(r) THEN "accepted" ELSE "freed"
              /\ frees' = IF EthifKeeps(r) THEN frees ELSE frees + 1
              /\ inputs' = Append(inputs, r)
       ELSE /\ pbuf' = "freed"
            /\ frees' = frees + 1
            /\ UNCHANGED inputs
  /\ pc' = "idle"
  /\ notes' = <<>>
  /\ UNCHANGED drv_locals
  /\ UNCHANGED <<link_up, connected, hadPoll, err>>
  /\ UNCHANGED <<iov, irqv, wtv, chipv, busv, phy, rxCalls, alloc, plen>>

ethif_poll ==
  \/ EthifPollLink
  \/ EthifPollAlloc
  \/ EthifPollDeliver

(* ====================== ethif_output (ethif.c:79-109) =================== *)
\* mutant: the state is saved but interrupts are not disabled
sys_arch_protect_NoMask(i) == [state |-> i, irq |-> i]

\* sys_arch_protect: state = SREG (PRIMASK); cli() (__disable_irq()); return state
sys_arch_protect(i) == [state |-> i, irq |-> FALSE]

\* sys_arch_unprotect: SREG = state (__set_PRIMASK(state)); the enable flag after it
sys_arch_unprotect(state) == state

\* irq_state = sys_arch_protect(); sent = driver->tx(p->payload, p->tot_len, ethif)
EthifOutputCall ==
  /\ pc = "idle"
  /\ \E p \in OutFrames :
       /\ TxEnter("ethif_output", p.tot_len)
       /\ plen' = p.len
  /\ LET p == sys_arch_protect(irq)
     IN /\ irq_state' = p.state
        /\ irq' = p.irq
  /\ err' = "none"
  /\ pbuf' = "none"
  /\ UNCHANGED <<link_up, connected, notes, hadPoll>>
  /\ phy' = -1
  /\ rxCalls' = 0
  /\ inputs' = <<>>
  /\ alloc' = "none"
  /\ frees' = 0
  /\ UNCHANGED <<iov, isr, wtv, chipv>>

\* mutant: the status does not depend on what transmit returned
EthifOutputStatus_AlwaysOk(sent, tot_len) == "ERR_OK"

\* if (sent != p->tot_len) return ERR_IF; return ERR_OK
EthifOutputStatus(sent, tot_len) == IF sent # tot_len THEN "ERR_IF" ELSE "ERR_OK"

\* sys_arch_unprotect(irq_state), then the status
EthifOutputRet ==
  /\ pc = "out_ret"
  /\ irq' = sys_arch_unprotect(irq_state)
  /\ err' = EthifOutputStatus(ret, buflen)
  /\ pc' = "idle"
  /\ UNCHANGED drv_locals
  /\ UNCHANGED <<link_up, connected, notes, hadPoll, pbuf>>
  /\ UNCHANGED <<iov, irq_state, isr, wtv, chipv, busv, pollv, ownv>>

ethif_output ==
  \/ EthifOutputCall
  \/ EthifOutputRet

(* ======================= ethif_init (ethif.c:120-169) =================== *)
\* netif->flags = BROADCAST | ETHARP | ETHERNET (the link flag is cleared),
\* ethif->ethaddr = &netif->hwaddr, success = driver->init(ethif)
EthifInitCall ==
  /\ pc = "idle"
  /\ InitEnter("ethif_init", TRUE)
  /\ link_up' = FALSE
  /\ connected' = FALSE
  /\ hadPoll' = FALSE
  /\ err' = "none"
  /\ pbuf' = "none"
  /\ UNCHANGED notes
  /\ phy' = -1
  /\ rxCalls' = 0
  /\ inputs' = <<>>
  /\ alloc' = "none"
  /\ frees' = 0
  /\ plen' = -1
  /\ UNCHANGED <<iov, irqv, wtv, chipv>>

EthifInitStatus(success) == IF success THEN "ERR_OK" ELSE "ERR_IF"

EthifInitRet ==
  /\ pc = "init_ret"
  /\ err' = EthifInitStatus(ok)
  /\ pc' = "idle"
  /\ UNCHANGED drv_locals
  /\ UNCHANGED <<link_up, connected, notes, hadPoll, pbuf>>
  /\ UNCHANGED <<iov, irqv, wtv, chipv, busv, pollv, ownv>>

ethif_init ==
  \/ EthifInitCall
  \/ EthifInitRet

Next ==
  \/ CallTx
  \/ CallRx
  \/ CallInit
  \/ CallPoll
  \/ w5500_tx
  \/ w5500_rx
  \/ w5500_init

Spec == Init /\ [][Next]_vars

\* a driver operation that was called keeps executing: the CPU runs it to its
\* return (nothing in w5500.c blocks or yields)
LiveSpec == Spec /\ WF_vars(w5500_tx \/ w5500_rx \/ w5500_init)

EthifNext ==
  \/ ethif_init
  \/ ethif_poll
  \/ ethif_output
  \/ w5500_tx
  \/ w5500_rx
  \/ w5500_init

EthifSpec == Init /\ [][EthifNext]_vars
(* ============ register access layer (w5500.c:222-276) and the chip ====== *)
MaxLen == 2
IoBlocks == { COMMON_REGISTER, SOCKET0_RX_BUFFER, 35 }
IoAddrs == { 4660, 65535 }
IoBytes == { 1, 255 }
IoWords == { 511, 65281 }
IoBufs == UNION { [1..n -> IoBytes] : n \in 0..MaxLen }

\* mutant: the write bit is put in bit 1 of the control byte
SpiCmd_WriteBit1(block, addr, wr) ==
  << U8(addr \div 256), U8(BitAnd(addr, 255)),
     U8(BitOr(block * 8, IF wr THEN 2 ELSE 0)) >>

\* cmd[] = { addr >> 8, addr & 255, (block << 3) | (wr ? 4 : 0) }
SpiCmd(block, addr, wr) ==
  << U8(addr \div 256), U8(BitAnd(addr, 255)),
     U8(BitOr(block * 8, IF wr THEN 4 ELSE 0)) >>

\* the bytes w5500_spi_io hands to s->txn, in order
SpiSent(t) == SpiCmd(t.block, t.addr, t.wr) \o t.data

\* the chip: one cell of its memory (0 until written)
ChipCell(m, c) == IF c \in DOMAIN m THEN m[c] ELSE 0

ChipPut(m, c, v) == [x \in DOMAIN m \cup {c} |-> IF x = c THEN v ELSE m[x]]

\* the chip stores the payload bytes at consecutive offsets, wrapping at 2^16
RECURSIVE ChipStore(_, _, _, _)
ChipStore(m, bsb, off, data) ==
  IF data = <<>> THEN m
  ELSE ChipStore(ChipPut(m, <<bsb, off>>, Head(data)), bsb, (off + 1) % 65536,
                 Tail(data))

ChipLoad(m, bsb, off, n) ==
  [i \in 1..n |-> ChipCell(m, <<bsb, (off + i - 1) % 65536>>)]

\* the chip decodes the 3-byte header (offset high, offset low, control byte:
\* block selector in bits 7..3, write bit 2) and serves the payload bytes
ChipExchange(m, mosi) ==
  LET off == mosi[1] * 256 + mosi[2]
      bsb == mosi[3] \div 8
      rwb == (mosi[3] \div 4) % 2
      n == Len(mosi) - 3
  IN [mem |-> IF rwb = 1 THEN ChipStore(m, bsb, off, SubSeq(mosi, 4, Len(mosi)))
                          ELSE m,
      miso |-> <<0, 0, 0>> \o
               (IF rwb = 1 THEN [i \in 1..n |-> 0] ELSE ChipLoad(m, bsb, off, n))]

\* mutant: every returned byte is stored into the buffer, on a write too
w5500_spi_io_Clobber(m, t) ==
  LET x == ChipExchange(m, SpiSent(t))
  IN [mem |-> x.mem,
      buf |-> SubSeq(x.miso, 4, 3 + t.n)]

\* w5500_spi_io: the chip memory and the caller buffer after the transaction
w5500_spi_io(m, t) ==
  LET x == ChipExchange(m, SpiSent(t))
  IN [mem |-> x.mem,
      buf |-> IF t.wr THEN t.data ELSE SubSeq(x.miso, 4, 3 + t.n)]

\* the calls w5500_spi_io makes on the shim, in order (w5500.c:232-244):
\* s->begin, s->txn for each of the 3 bytes of cmd[], s->txn for each of the
\* len bytes of the buffer, s->end; miso holds the byte each s->txn returned
SpiCalls(t, miso) ==
  << [op |-> "begin"] >>
  \o [i \in 1..Len(SpiSent(t)) |-> [op |-> "txn", out |-> SpiSent(t)[i], in |-> miso[i]]]
  \o << [op |-> "end"] >>

\* one w5500_spi_io call on chip memory m, as observed at the shim and in the
\* caller buffer
SpiTrace(m, t) ==
  [kind |-> "io", t |-> t,
   calls |-> SpiCalls(t, ChipExchange(m, SpiSent(t)).miso),
   buf |-> w5500_spi_io(m, t).buf]

\* w5500_write(s, block, addr, buf, len)
IoWrite ==
  \E b \in IoBlocks, a \in IoAddrs, d \in IoBufs :
    /\ lastW.kind = "none"
    /\ mem' = w5500_spi_io(mem, w5500_write(b, a, d, Len(d))).mem
    /\ lastW' = [kind |-> "buf", block |-> b, addr |-> a, n |-> Len(d), val |-> d]
    /\ lastR' = [kind |-> "none"]
    /\ lastT' = SpiTrace(mem, w5500_write(b, a, d, Len(d)))
    /\ UNCHANGED <<drv, adp, irqv, wtv, chipv, busv, pollv, ownv>>

\* w5500_write_byte(s, block, addr, val)
IoWriteByte ==
  \E b \in IoBlocks, a \in IoAddrs, v \in IoBytes :
    /\ lastW.kind = "none"
    /\ mem' = w5500_spi_io(mem, w5500_write_byte(b, a, v)).mem
    /\ lastW' = [kind |-> "byte", block |-> b, addr |-> a, n |-> 1, val |-> v]
    /\ lastR' = [kind |-> "none"]
    /\ lastT' = SpiTrace(mem, w5500_write_byte(b, a, v))
    /\ UNCHANGED <<drv, adp, irqv, wtv, chipv, busv, pollv, ownv>>

\* w5500_write_word(s, block, addr, val)
IoWriteWord ==
  \E b \in IoBlocks, a \in IoAddrs, v \in IoWords :
    /\ lastW.kind = "none"
    /\ mem' = w5500_spi_io(mem, w5500_write_word(b, a, v)).mem
    /\ lastW' = [kind |-> "word", block |-> b, addr |-> a, n |-> 2, val |-> v]
    /\ lastR' = [kind |-> "none"]
    /\ lastT' = SpiTrace(mem, w5500_write_word(b, a, v))
    /\ UNCHANGED <<drv, adp, irqv, wtv, chipv, busv, pollv, ownv>>

\* w5500_read(s, block, addr, buf, len)
IoRead ==
  \E b \in IoBlocks, a \in IoAddrs, n \in 0..MaxLen :
    /\ lastR' = [kind |-> "buf", block |-> b, addr |-> a, n |-> n,
                 val |-> w5500_spi_io(mem, w5500_read(b, a, [i \in 1..n |-> 0], n)).buf]
    /\ lastT' = SpiTrace(mem, w5500_read(b, a, [i \in 1..n |-> 0], n))
    /\ UNCHANGED <<mem, lastW, drv, adp, irqv, wtv, chipv, busv, pollv, ownv>>

\* w5500_read_byte(s, block, addr): r = 0; w5500_read(&r, 1); return r
IoReadByte ==
  \E b \in IoBlocks, a \in IoAddrs :
    /\ lastR' = [kind |-> "byte", block |-> b, addr |-> a, n |-> 1,
                 val |-> w5500_spi_io(mem, w5500_read(b, a, <<0>>, 1)).buf[1]]
    /\ lastT' = SpiTrace(mem, w5500_read(b, a, <<0>>, 1))
    /\ UNCHANGED <<mem, lastW, drv, adp, irqv, wtv, chipv, busv, pollv, ownv>>

\* w5500_read_word(s, block, addr): buf = {0, 0}; w5500_read(buf, 2)
IoReadWord ==
  \E b \in IoBlocks, a \in IoAddrs :
    /\ lastR' = [kind |-> "word", block |-> b, addr |-> a, n |-> 2,
                 val |-> w5500_read_word(
                           w5500_spi_io(mem, w5500_read(b, a, <<0, 0>>, 2)).buf)]
    /\ lastT' = SpiTrace(mem, w5500_read(b, a, <<0, 0>>, 2))
    /\ UNCHANGED <<mem, lastW, drv, adp, irqv, wtv, chipv, busv, pollv, ownv>>

\* the chip is reset (its memory reads 0 again) before the next experiment:
\* IoSpec runs a reset chip, one write, then any number of reads
ChipReset ==
  /\ lastW.kind # "none"
  /\ mem' = [c \in {} |-> 0]
  /\ lastW' = [kind |-> "none"]
  /\ lastR' = [kind |-> "none"]
  /\ lastT' = [kind |-> "none"]
  /\ UNCHANGED <<drv, adp, irqv, wtv, chipv, busv, pollv, ownv>>

IoNext ==
  \/ ChipReset
  \/ IoWrite
  \/ IoWriteByte
  \/ IoWriteWord
  \/ IoRead
  \/ IoReadByte
  \/ IoReadWord

IoSpec == Init /\ [][IoNext]_vars


(* ================= WAIT_OR_FAIL on its own (ethif.h:56-66) ============== *)
MaxIter == 12

\* do { result = true; int __count = 0; ...
WaitStart ==
  /\ wRes # "running"
  /\ \E n \in 0..MaxIter : wMax' = n
  /\ wCount' = 0
  /\ wConds' = <<>>
  /\ wResult' = TRUE
  /\ wRes' = "running"
  /\ UNCHANGED <<drv, adp, iov, irqv, busv, pollv, ownv, chipv>>

\* one evaluation of the condition: while (condition) { if (++__count >
\* (max_iter)) { result = false; break; } }
WaitEval ==
  /\ wRes = "running"
  /\ \E c \in BOOLEAN :
       LET w == WAIT_OR_FAIL(wMax, c, wCount)
       IN /\ wConds' = Append(wConds, c)
          /\ wCount' = IF c THEN wCount + 1 ELSE wCount
          /\ wResult' = w.passed
          /\ wRes' = IF w.exit THEN "done" ELSE "running"
  /\ UNCHANGED wMax
  /\ UNCHANGED <<drv, adp, iov, irqv, busv, pollv, ownv, chipv>>

WaitNext ==
  \/ WaitStart
  \/ WaitEval

WaitSpec == Init /\ [][WaitNext]_vars

(* ========================= observations ================================ *)
TxPcs == {"tx_fsr", "tx_sr", "tx_rd_wr", "tx_wr_buf", "tx_wr_ptr", "tx_wr_cmd",
          "tx_cr", "tx_ir"}
RxPcs == {"rx_rsr", "rx_rd_ptr", "rx_rd_hdr", "rx_rd_payload", "rx_wr_ptr",
          "rx_wr_cmd", "rx_cr"}
InTx == pc \in TxPcs \/ done = "tx"
InRx == pc \in RxPcs \/ done = "rx"

\* the n-th bounded wait of the running call is over, with this result
WaitPassed(n) == Len(waits) >= n /\ waits[n]
WaitFailed(n) == Len(waits) >= n /\ ~waits[n]

LogWrites == SelectSeq(log, LAMBDA t : t.wr)
WritesTo(block, addr) ==
  SelectSeq(log, LAMBDA t : t.wr /\ t.block = block /\ t.addr = addr)

\* the 16-bit value the chip receives in a two-byte write, high byte first
WordOf(d) == d[1] * 256 + d[2]

\* the completion wait of w5500_tx ended on send-ok, without timeout/disconnect
SendOkObserved ==
  /\ WaitPassed(3)
  /\ BitAnd(ir, Sn_IR_SENDOK) # 0
  /\ BitAnd(ir, Sn_IR_TIMEOUT) = 0
  /\ BitAnd(ir, Sn_IR_DISCON) = 0


\* transactions of the running call on the RX ring / TX ring, in order
RxRingReads == SelectSeq(log, LAMBDA t : ~t.wr /\ t.block = SOCKET0_RX_BUFFER)
TxRingWrites == SelectSeq(log, LAMBDA t : t.wr /\ t.block = SOCKET0_TX_BUFFER)

\* w5500_rx has read the length prefix of a frame
RxDequeuing ==
  \/ pc \in {"rx_rd_payload", "rx_wr_ptr", "rx_wr_cmd", "rx_cr"}
  \/ done = "rx" /\ stage \in {"rx_end", "rx_cr_timeout"}


\* number of bytes the running w5500_rx has read out of the RX ring
RxBytesRead ==
  IF Len(RxRingReads) = 0 THEN 0
  ELSE IF Len(RxRingReads) = 1 THEN RxRingReads[1].n
  ELSE RxRingReads[1].n + RxRingReads[2].n

IsWriteTo(t, block, addr) == t.wr /\ t.block = block /\ t.addr = addr

\* the transactions of the running call without their data bytes
LogShape ==
  [i \in 1..Len(log) |->
     [wr |-> log[i].wr, block |-> log[i].block, addr |-> log[i].addr, n |-> log[i].n]]

IsPrefix(a, b) == Len(a) <= Len(b) /\ SubSeq(b, 1, Len(a)) = a

InitPcs == {"init_wr_rst", "init_mr", "init_cfg", "init_cr", "init_sr"}
InInit == pc \in InitPcs \/ done = "init"

\* writes of one command value to Sn_CR by the running call
CmdWrites(v) ==
  SelectSeq(log, LAMBDA t : IsWriteTo(t, SOCKET0_REGISTER, Sn_CR) /\ t.data = <<v>>)

(* ====== ethif_output under interrupts (ethif.c:97-99, sys_arch.cpp) ===== *)
\* the caller of ethif_output runs with interrupts enabled or disabled
IrqSet ==
  /\ pc = "idle"
  /\ irq' = ~irq
  /\ UNCHANGED <<irq_state, isr>>
  /\ UNCHANGED <<drv, adp, iov, wtv, chipv, busv, pollv, ownv>>

\* an interrupt handler that shares the bus runs (only while interrupts are
\* enabled) and makes a bus transaction
IsrBus ==
  /\ irq
  /\ isr' = IF pc \in TxPcs \/ isr = "inside" THEN "inside" ELSE "outside"
  /\ UNCHANGED <<irq, irq_state>>
  /\ UNCHANGED <<drv, adp, iov, wtv, chipv, busv, pollv, ownv>>

IrqNext ==
  \/ IrqSet
  \/ IsrBus
  \/ ethif_output
  \/ w5500_tx

IrqSpec == Init /\ [][IrqNext]_vars

(* ================= Sn_IR as the chip keeps it (SendSpec) ================ *)
\* The socket interrupt register latches: a flag the chip raises stays set
\* until the host writes a one to its bit.  The chip raises SENDOK or TIMEOUT
\* once for every SEND command it accepted, in the order of the commands.

\* sends the chip may hold uncompleted at once
MaxPending == 2

\* flags with which the chip ends a send
SendEndings == { Sn_IR_SENDOK, Sn_IR_TIMEOUT }

\* Sn_IR after the host wrote the values W to it (write one to clear)
IrCleared(reg, W) ==
  IF W = {} THEN reg ELSE reg - BitAnd(reg, CHOOSE w \in W : TRUE)

\* driver->tx is entered: what is latched or still in flight belongs to
\* earlier transmits
ChipCallTx ==
  /\ Len(sends) < MaxPending
  /\ TxCall({ 1500 })
  /\ sends' = [ i \in 1..Len(sends) |-> "old" ]
  /\ irOwn' = 0
  /\ ownSeen' = 0
  /\ UNCHANGED irReg

\* the chip accepts the running call's SEND command
ChipTxWriteCmd ==
  /\ TxSend
  /\ sends' = Append(sends, "own")
  /\ UNCHANGED <<irReg, irOwn, ownSeen>>

\* the chip ends its oldest send and latches the flag
ChipComplete ==
  /\ sends # << >>
  /\ \E f \in SendEndings :
       /\ irReg' = BitOr(irReg, f)
       /\ irOwn' = IF Head(sends) = "own" THEN BitOr(irOwn, f) ELSE irOwn
  /\ sends' = Tail(sends)
  /\ UNCHANGED ownSeen
  /\ UNCHANGED <<drv, adp, iov, irqv, wtv, busv, pollv, ownv>>

\* the completion wait reads what the chip has latched and clears what it
\* writes back
ChipTxIrWait ==
  /\ TxIrRead({ irReg })
  /\ ownSeen' = BitAnd(irOwn, w5500_read_ir_and_clear(irReg))
  /\ irReg' = IrCleared(irReg, IrWritten(w5500_read_ir_and_clear(irReg)))
  /\ irOwn' = IrCleared(irOwn, IrWritten(w5500_read_ir_and_clear(irReg)))
  /\ UNCHANGED sends

SendNext ==
  \/ ChipCallTx
  \/ TxFsrWait
  \/ TxReadStatus
  \/ TxReadPtr
  \/ TxWriteBuf
  \/ TxWritePtr
  \/ ChipTxWriteCmd
  \/ TxCrWait
  \/ ChipTxIrWait
  \/ ChipComplete

SendSpec == Init /\ [][SendNext]_vars

(* ============================== claims ================================== *)
\* C1: w5500_tx with a non-zero length returns the full requested length if and
\* only if send-ok, and neither timeout nor disconnect, was observed in Sn_IR
\* before the bounded-wait cap was exhausted; in every other case (exhaustion of
\* the final wait included) it returns zero.
C1_TxFullLengthIffSendOk ==
  (done = "tx" /\ buflen # 0) =>
     IF SendOkObserved THEN ret = buflen ELSE ret = 0

\* C2: the value returned by w5500_rx is never greater than the caller-supplied
\* buffer capacity.
C2_RxReturnWithinCapacity ==
  done = "rx" => ret <= buflen

C2_Witness ==
  done = "rx" /\ buflen = 1514 /\ ret = 1514

\* C3: whenever w5500_rx finds a non-zero stable received size it writes
\* (cursor read at the start + declared prefix) mod 65536 to Sn_RX_RD, once, for
\* every prefix value; for a prefix below 2 the payload length is zero and the
\* cursor still advances by the prefix.
C3_RxCursorAdvance ==
  InRx =>
    /\ \A i \in 1..Len(log) :
         (log[i].wr /\ log[i].block = SOCKET0_REGISTER /\ log[i].addr = Sn_RX_RD)
           => WordOf(log[i].data) = (ptr + frame_len) % 65536
    /\ (done = "rx" /\ WaitPassed(1) /\ len # 0)
         => /\ Len(WritesTo(SOCKET0_REGISTER, Sn_RX_RD)) = 1
            /\ (frame_len < 2 => payload_len = 0 /\ ret = 0)

C3_Witness ==
  /\ done = "rx"
  /\ ptr = 65535
  /\ frame_len = 1
  /\ Len(WritesTo(SOCKET0_REGISTER, Sn_RX_RD)) = 1
  /\ WritesTo(SOCKET0_REGISTER, Sn_RX_RD)[1].data = <<0, 0>>

\* C4: when the requested length exceeds the stable free-space value, w5500_tx
\* returns zero and writes neither the send command, nor the TX buffer, nor the
\* TX write pointer (it makes no write at all).
C4_TxNoSendWithoutSpace ==
  (InTx /\ WaitPassed(1) /\ buflen > freesize) =>
     /\ done = "tx"
     /\ ret = 0
     /\ LogWrites = <<>>
     /\ cleared = {}

C4_Witness ==
  done = "tx" /\ WaitPassed(1) /\ buflen = 1501 /\ freesize = 1500 /\ ret = 0

\* C5: in an ethif_poll the link-up / link-down notification is issued exactly
\* when the link bit read in that poll differs from the link state the stack
\* holds, at most once, and nowhere else in the poll; a poll that reads the same
\* link bit as the previous poll issues no notification.
C5_LinkNotifyOnChange ==
  [][ IF pc = "idle" /\ pc' = "poll_alloc"
        THEN /\ notes' = IF connected' # link_up
                           THEN <<IF connected' THEN "up" ELSE "down">>
                           ELSE <<>>
             /\ (hadPoll /\ connected' = connected) => notes' = <<>>
        ELSE notes' = notes \/ notes' = <<>> ]_vars

C5_Witness ==
  pc = "poll_alloc" /\ hadPoll /\ notes = <<"down">> /\ ~link_up

\* C6: a register write followed by a register read of the same block, offset
\* and length (buffer, byte and big-endian word forms) returns what was written.
C6_WriteReadRoundTrip ==
  ( /\ lastR.kind # "none"
    /\ lastW.kind = lastR.kind
    /\ lastW.block = lastR.block
    /\ lastW.addr = lastR.addr
    /\ lastW.n = lastR.n ) => lastR.val = lastW.val

C6_Witness ==
  /\ lastW.kind = "word" /\ lastR.kind = "word"
  /\ lastW.block = 35 /\ lastR.block = 35
  /\ lastW.addr = 65535 /\ lastR.addr = 65535
  /\ lastR.val = 65281

\* C7: when the stable received size is zero, w5500_rx returns 0 having accessed
\* only Sn_RX_RSR: no access to Sn_RX_RD, the RX ring or Sn_CR, and nothing
\* stored into the caller buffer.
C7_RxEmptyTouchesNothing ==
  (InRx /\ WaitPassed(1) /\ len = 0) =>
     /\ done = "rx"
     /\ ret = 0
     /\ log = <<>>
     /\ polled = {<<SOCKET0_REGISTER, Sn_RX_RSR>>}
     /\ bufWr = 0

C7_Witness ==
  done = "rx" /\ WaitPassed(1) /\ len = 0 /\ stage = "rx_empty"

\* C8: when the two reads of Sn_RX_RSR disagree on every attempt of the bounded
\* wait, w5500_rx returns 0 and no frame is dequeued: Sn_RX_RD, the RX ring,
\* Sn_CR and the caller buffer are untouched.
C8_RxUnstableTouchesNothing ==
  (InRx /\ WaitFailed(1)) =>
     /\ done = "rx"
     /\ ret = 0
     /\ log = <<>>
     /\ polled = {<<SOCKET0_REGISTER, Sn_RX_RSR>>}
     /\ bufWr = 0

C8_Witness ==
  done = "rx" /\ WaitFailed(1) /\ stage = "rx_rsr_timeout"

\* C9: w5500_init reports success if and only if the reset bit was seen cleared
\* within the cap, Sn_CR was seen cleared within the cap after the open command,
\* and the status read afterwards is exactly 0x42.
C9_InitSuccessIff ==
  done = "init" =>
    (ok <=> /\ WaitPassed(1)
            /\ WaitPassed(2)
            /\ <<COMMON_REGISTER, MR>> \in polled
            /\ <<SOCKET0_REGISTER, Sn_CR>> \in polled
            /\ Len(WritesTo(SOCKET0_REGISTER, Sn_CR)) = 1
            /\ sock_status = 66)

C9_Witness ==
  done = "init" /\ WaitPassed(1) /\ WaitPassed(2) /\ sock_status = 19 /\ ~ok

\* C10: w5500_tx accepts a request whose length equals the reported free space:
\* a length n with 1 <= n <= stable free space is not rejected for lack of
\* space, and with an acceptable socket status, Sn_CR cleared and send-ok
\* observed without timeout/disconnect the call returns n.
C10_TxAcceptsExactFit ==
  (done = "tx" /\ buflen >= 1 /\ WaitPassed(1) /\ buflen <= freesize) =>
     /\ stage # "tx_no_space"
     /\ sock_status # -1
     /\ (sock_status \notin {0, 26, 27, 28} /\ WaitPassed(2) /\ SendOkObserved)
          => ret = buflen

C10_Witness ==
  done = "tx" /\ buflen = 1500 /\ freesize = 1500 /\ ret = 1500

AllTrue(s) == \A i \in 1..Len(s) : s[i]

\* C11: WAIT_OR_FAIL(N, cond, result) re-evaluates cond until it is false; it
\* ends with result true as soon as one evaluation of cond is false, and with
\* result false exactly when cond has evaluated true N + 1 times in a row, after
\* which cond is not evaluated again.
C11_WaitOrFail ==
  /\ wRes = "running" =>
       /\ wResult
       /\ AllTrue(wConds)
       /\ Len(wConds) <= wMax
  /\ wRes = "done" =>
       /\ Len(wConds) >= 1
       /\ Len(wConds) <= wMax + 1
       /\ AllTrue(SubSeq(wConds, 1, Len(wConds) - 1))
       /\ wResult <=> ~wConds[Len(wConds)]
       /\ ~wResult <=> (Len(wConds) = wMax + 1 /\ AllTrue(wConds))

C11_Witness ==
  wRes = "done" /\ ~wResult /\ wMax = 3 /\ wConds = <<TRUE, TRUE, TRUE, TRUE>>

\* C12: every call of init, transmit, receive and poll-link returns, whatever
\* the chip answers: no bounded wait evaluates its condition more than
\* MAX_LOOP_ITERATIONS + 1 times, a call makes at most 9 bus transactions
\* outside its (at most 3) bounded waits, and a call that was entered reaches
\* its return.
C12_CallsTerminate ==
  /\ [](count <= MAX_LOOP_ITERATIONS /\ Len(log) <= 9 /\ Len(waits) <= 3)
  /\ (pc # "idle") ~> (pc = "idle")

C12_Witness ==
  /\ pc = "idle"
  /\ done = "tx"
  /\ stage = "tx_cr_timeout"
  /\ waits = <<TRUE, FALSE>>

\* C13: in ethif_output interrupts are masked from before the first bus
\* transaction of transmit until transmit has returned, so no bus transaction of
\* an interrupt handler falls inside a transmit; the state saved on entry is the
\* state on entry, nothing changes it or the mask during transmit, and on
\* return the interrupt state is restored to exactly the saved state.
C13_TxCriticalSection ==
  /\ []( /\ (caller = "ethif_output" /\ (pc \in TxPcs \/ pc = "out_ret")) => ~irq
         /\ isr # "inside" )
  /\ [][ /\ (pc = "idle" /\ pc' # "idle") => (irq_state' = irq /\ ~irq')
         /\ pc \in TxPcs => (irq_state' = irq_state /\ irq' = irq)
         /\ pc = "out_ret" => (irq' = irq_state /\ pc' = "idle") ]_vars

C13_Witness ==
  /\ pc = "idle"
  /\ caller = "ethif_output"
  /\ done = "tx"
  /\ stage = "tx_end"
  /\ err = "ERR_OK"
  /\ ~irq_state
  /\ ~irq
  /\ isr = "outside"

\* C14: ethif_output returns ERR_OK if and only if the driver's transmit
\* returned exactly the frame's total length, and ERR_IF otherwise; it never
\* reports success for a frame for which transmit returned less.
C14_OutputStatus ==
  (pc = "idle" /\ caller = "ethif_output" /\ err # "none") =>
     /\ done = "tx"
     /\ err \in {"ERR_OK", "ERR_IF"}
     /\ err = "ERR_OK" <=> ret = buflen
     /\ ret < buflen => err = "ERR_IF"

C14_Witness ==
  /\ pc = "idle"
  /\ caller = "ethif_output"
  /\ buflen = 1500
  /\ stage = "tx_end"
  /\ ret = 0
  /\ err = "ERR_IF"

\* C15: the driver never accesses the caller's frame buffer outside
\* [0, capacity): receive stores only below the capacity passed by the caller
\* (its payload read is never longer than the capacity), and transmit reads
\* only below the length passed by the caller.
C15_BufferBounds ==
  /\ InRx =>
       /\ bufWr <= buflen
       /\ \A i \in 2..Len(RxRingReads) : RxRingReads[i].n <= buflen
  /\ InTx =>
       \A i \in 1..Len(TxRingWrites) : TxRingWrites[i].n <= buflen

C15_Witness ==
  /\ done = "rx"
  /\ buflen = 1514
  /\ bufWr = 1514
  /\ Len(RxRingReads) = 2
  /\ RxRingReads[2].n = 1514

\* C17: when the declared payload length (prefix - 2) exceeds the caller's
\* capacity, receive stores nothing into the caller buffer and reads no payload,
\* still writes cursor + prefix to Sn_RX_RD and the receive-complete command to
\* Sn_CR, and returns 0.
C17_RxOversizeSkipped ==
  (RxDequeuing /\ frame_len - 2 > buflen) =>
     /\ bufWr = 0
     /\ pc # "rx_rd_payload"
     /\ Len(RxRingReads) = 1
     /\ done = "rx" =>
          /\ ret = 0
          /\ Len(WritesTo(SOCKET0_REGISTER, Sn_RX_RD)) = 1
          /\ WordOf(WritesTo(SOCKET0_REGISTER, Sn_RX_RD)[1].data)
               = (ptr + frame_len) % 65536
          /\ Len(WritesTo(SOCKET0_REGISTER, Sn_CR)) = 1
          /\ WritesTo(SOCKET0_REGISTER, Sn_CR)[1].data = <<64>>

C17_Witness ==
  /\ done = "rx"
  /\ stage = "rx_end"
  /\ buflen = 1514
  /\ frame_len = 1517
  /\ ret = 0
  /\ Len(WritesTo(SOCKET0_REGISTER, Sn_RX_RD)) = 1

\* C16 (as stated): the TX write pointer is advanced only over bytes already
\* written into the TX buffer, and the RX read pointer only over bytes that the
\* chip reported as received (within the stable received size) and that the
\* driver has already read out.
C16_CursorWithinData ==
  /\ InTx =>
       \A i \in 1..Len(log) :
         IsWriteTo(log[i], SOCKET0_REGISTER, Sn_TX_WR) =>
           /\ i >= 2
           /\ IsWriteTo(log[i - 1], SOCKET0_TX_BUFFER, ptr)
           /\ WordOf(log[i].data) = (ptr + log[i - 1].n) % 65536
  /\ InRx =>
       \A i \in 1..Len(log) :
         IsWriteTo(log[i], SOCKET0_REGISTER, Sn_RX_RD) =>
           /\ frame_len <= len
           /\ frame_len <= RxBytesRead

\* C16 (amended): the TX write pointer is advanced only over the bytes just
\* written into the TX buffer; the RX read pointer is advanced by the declared
\* prefix once the prefix has been read: the payload has been read out before
\* only when it fits the caller buffer (an oversized frame is skipped unread),
\* and the prefix is not checked against the stable received size.
C16_CursorAdvance ==
  /\ InTx =>
       \A i \in 1..Len(log) :
         IsWriteTo(log[i], SOCKET0_REGISTER, Sn_TX_WR) =>
           /\ i >= 2
           /\ IsWriteTo(log[i - 1], SOCKET0_TX_BUFFER, ptr)
           /\ log[i - 1].n = buflen
           /\ WordOf(log[i].data) = (ptr + log[i - 1].n) % 65536
  /\ InRx =>
       \A i \in 1..Len(log) :
         IsWriteTo(log[i], SOCKET0_REGISTER, Sn_RX_RD) =>
           /\ Len(RxRingReads) >= 1
           /\ RxRingReads[1].addr = ptr
           /\ RxRingReads[1].n = 2
           /\ WordOf(log[i].data) = (ptr + frame_len) % 65536
           /\ RxBytesRead = IF frame_len - 2 > buflen THEN 2
                            ELSE IF frame_len > 2 THEN frame_len ELSE 2

C16_Witness ==
  /\ done = "rx"
  /\ stage = "rx_end"
  /\ len = 60
  /\ buflen = 1514
  /\ frame_len = 1517
  /\ RxBytesRead = 2
  /\ Len(WritesTo(SOCKET0_REGISTER, Sn_RX_RD)) = 1

\* C18: if Sn_CR is not seen cleared within the cap after the receive-complete
\* command, receive returns 0 and the advanced value written to Sn_RX_RD stays:
\* that write is the only one to Sn_RX_RD, and nothing is written after the
\* command.
C18_RxNoRollback ==
  (InRx /\ WaitFailed(2)) =>
     /\ done = "rx"
     /\ ret = 0
     /\ Len(WritesTo(SOCKET0_REGISTER, Sn_RX_RD)) = 1
     /\ WordOf(WritesTo(SOCKET0_REGISTER, Sn_RX_RD)[1].data)
          = (ptr + frame_len) % 65536
     /\ Len(log) >= 2
     /\ IsWriteTo(log[Len(log) - 1], SOCKET0_REGISTER, Sn_RX_RD)
     /\ IsWriteTo(log[Len(log)], SOCKET0_REGISTER, Sn_CR)

C18_Witness ==
  /\ done = "rx"
  /\ WaitFailed(2)
  /\ frame_len = 1516
  /\ bufWr = 1514
  /\ ret = 0

\* C19: when receive returns a non-zero length n, n is the declared prefix
\* minus 2 and the first n bytes of the caller buffer were filled by one read of
\* n bytes of the RX ring starting at (cursor + 2) mod 65536, cursor being the
\* value of Sn_RX_RD read at the start of the call, where the prefix was read.
C19_RxPayloadSource ==
  (done = "rx" /\ ret # 0) =>
     /\ ret = frame_len - 2
     /\ bufWr = ret
     /\ ~log[1].wr /\ log[1].block = SOCKET0_REGISTER /\ log[1].addr = Sn_RX_RD
     /\ Len(RxRingReads) = 2
     /\ RxRingReads[1].addr = ptr
     /\ RxRingReads[1].n = 2
     /\ RxRingReads[2].addr = (ptr + 2) % 65536
     /\ RxRingReads[2].n = ret

C19_Witness ==
  /\ done = "rx"
  /\ ret = 1514
  /\ ptr = 65535
  /\ frame_len = 1516
  /\ RxRingReads[2].addr = 1

\* the order of bus operations of a receive that dequeues the frame whose
\* prefix it read
RxOrder ==
  << [wr |-> FALSE, block |-> SOCKET0_REGISTER, addr |-> Sn_RX_RD, n |-> 2],
     [wr |-> FALSE, block |-> SOCKET0_RX_BUFFER, addr |-> ptr, n |-> 2] >>
  \o (IF frame_len - 2 > buflen THEN << >>
      ELSE << [wr |-> FALSE, block |-> SOCKET0_RX_BUFFER,
               addr |-> (ptr + 2) % 65536,
               n |-> IF frame_len > 2 THEN frame_len - 2 ELSE 0] >>)
  \o << [wr |-> TRUE, block |-> SOCKET0_REGISTER, addr |-> Sn_RX_RD, n |-> 2],
        [wr |-> TRUE, block |-> SOCKET0_REGISTER, addr |-> Sn_CR, n |-> 1] >>

\* C20: in a receive call that dequeues a frame the bus operations are, in this
\* order: read Sn_RX_RD, read the 2-byte prefix, read the payload (when it
\* fits), write the advanced Sn_RX_RD, write the receive-complete command 0x40,
\* and only then poll Sn_CR.
C20_RxOrder ==
  InRx =>
    /\ Len(log) >= 1 => IsPrefix(LogShape, RxOrder)
    /\ <<SOCKET0_REGISTER, Sn_CR>> \in polled => LogShape = RxOrder
    /\ (done = "rx" /\ RxDequeuing) =>
         /\ LogShape = RxOrder
         /\ log[Len(log)].data = <<64>>
         /\ <<SOCKET0_REGISTER, Sn_CR>> \in polled

C20_Witness ==
  /\ done = "rx"
  /\ stage = "rx_end"
  /\ frame_len = 3
  /\ ret = 1
  /\ Len(log) = 5

\* C21: whenever transmit aborts before the payload write (zero length,
\* free-size reads that never agree within the cap, insufficient free space, or
\* socket status 0x00, 0x1A, 0x1B or 0x1C) it returns 0 having made no write
\* transaction at all; a zero-length request makes no bus transaction of any kind.
C21_TxAbortWritesNothing ==
  /\ ( /\ InTx
       /\ \/ buflen = 0 /\ done = "tx"
          \/ WaitFailed(1)
          \/ WaitPassed(1) /\ buflen > freesize
          \/ sock_status \in {0, 26, 27, 28} )
       => /\ done = "tx"
          /\ ret = 0
          /\ LogWrites = <<>>
          /\ cleared = {}
  /\ (done = "tx" /\ buflen = 0) => (log = <<>> /\ polled = {})

C21_Witness ==
  done = "tx" /\ buflen = 1500 /\ WaitPassed(1) /\ sock_status = 28 /\ ret = 0

\* the bus operations of a transmit that passed its pre-checks, up to the
\* send command
TxOrder ==
  << [wr |-> FALSE, block |-> SOCKET0_REGISTER, addr |-> Sn_SR, n |-> 1],
     [wr |-> FALSE, block |-> SOCKET0_REGISTER, addr |-> Sn_TX_WR, n |-> 2],
     [wr |-> TRUE, block |-> SOCKET0_TX_BUFFER, addr |-> ptr, n |-> buflen],
     [wr |-> TRUE, block |-> SOCKET0_REGISTER, addr |-> Sn_TX_WR, n |-> 2],
     [wr |-> TRUE, block |-> SOCKET0_REGISTER, addr |-> Sn_CR, n |-> 1] >>

\* C22: in a transmit that passes the pre-checks the bus operations are, in
\* this order: read Sn_TX_WR (p), write all len bytes into the TX buffer at p,
\* write (p + len) mod 65536 to Sn_TX_WR, write the send command 0x20; the
\* command is never written before the payload and the advanced cursor.
C22_TxOrder ==
  InTx =>
    /\ Len(log) >= 2 => IsPrefix(LogShape, TxOrder)
    /\ \A i \in 1..Len(log) :
         IsWriteTo(log[i], SOCKET0_REGISTER, Sn_CR) =>
           /\ i = 5
           /\ log[i].data = <<32>>
           /\ WordOf(log[4].data) = (ptr + buflen) % 65536
    /\ (pc \in {"tx_cr", "tx_ir"} \/ stage \in {"tx_cr_timeout", "tx_end"})
         => LogShape = TxOrder

C22_Witness ==
  /\ done = "tx"
  /\ stage = "tx_end"
  /\ buflen = 1500
  /\ ptr = 65535
  /\ Len(log) = 5
  /\ log[4].data = <<5, 219>>

\* C23: during transmit's completion wait the flag bits (the low five bits)
\* of every value read from Sn_IR, when not zero, are written back to Sn_IR
\* right after that read, so before the next read and before transmit returns;
\* the send-ok, timeout or disconnect flags that end the wait have been written
\* back when transmit returns.
C23_IrWriteToClear ==
  (InTx /\ <<SOCKET0_REGISTER, Sn_IR>> \in polled) =>
     /\ ir # 0 => ir \in cleared
     /\ 0 \notin cleared
     /\ (done = "tx" /\ WaitPassed(3)) =>
          (BitAnd(ir, 26) # 0 /\ ir \in cleared)

C23_Witness ==
  done = "tx" /\ WaitPassed(3) /\ ir = 24 /\ cleared = {4, 24}

\* C24: no driver operation retries: one transmit call writes the send command
\* at most once, one receive call writes the receive-complete command at most
\* once, and one init call writes the reset bit and the open command at most
\* once each, whatever the chip answers.
C24_NoRetry ==
  /\ InTx => (Len(CmdWrites(32)) <= 1 /\ Len(WritesTo(SOCKET0_REGISTER, Sn_CR)) <= 1)
  /\ InRx => (Len(CmdWrites(64)) <= 1 /\ Len(WritesTo(SOCKET0_REGISTER, Sn_CR)) <= 1)
  /\ InInit => /\ Len(CmdWrites(1)) <= 1
               /\ Len(WritesTo(SOCKET0_REGISTER, Sn_CR)) <= 1
               /\ Len(WritesTo(COMMON_REGISTER, MR)) <= 1

C24_Witness ==
  /\ done = "init"
  /\ stage = "init_cr_timeout"
  /\ Len(CmdWrites(1)) = 1
  /\ Len(WritesTo(COMMON_REGISTER, MR)) = 1

\* C25: if the chip does not clear the software-reset bit within the cap, init
\* returns failure having written only the mode register: nothing is written
\* after the failed reset.
C25_InitResetFailure ==
  (InInit /\ WaitFailed(1)) =>
     /\ done = "init"
     /\ ~ok
     /\ Len(log) = 1
     /\ IsWriteTo(log[1], COMMON_REGISTER, MR)
     /\ log[1].data = <<128>>

C25_Witness ==
  done = "init" /\ WaitFailed(1) /\ stage = "init_rst_timeout" /\ ~ok

\* C27: every register or buffer transaction for block b, offset a and length
\* n is exactly: select, exchange of a >> 8, exchange of a & 0xFF, exchange of
\* the control byte (the low eight bits of (b << 3) | 0x04 for a write, of
\* b << 3 for a read), n payload exchanges, deselect; on a write the caller's
\* bytes are sent in order and the buffer is left unchanged, on a read each
\* buffer position holds the byte returned by its exchange.
C27_TransactionFraming ==
  lastT.kind = "io" =>
    LET t == lastT.t
        c == lastT.calls
    IN /\ Len(c) = t.n + 5
       /\ c[1] = [op |-> "begin"]
       /\ c[Len(c)] = [op |-> "end"]
       /\ \A i \in 2..(Len(c) - 1) : c[i].op = "txn"
       /\ c[2].out = t.addr \div 256
       /\ c[3].out = t.addr % 256
       /\ c[4].out = ((t.block * 8) % 256) + (IF t.wr THEN 4 ELSE 0)
       /\ Len(lastT.buf) = t.n
       /\ t.wr => /\ \A i \in 1..t.n : c[4 + i].out = t.data[i]
                  /\ lastT.buf = t.data
       /\ ~t.wr => \A i \in 1..t.n : lastT.buf[i] = c[4 + i].in

C27_Witness ==
  /\ lastT.kind = "io"
  /\ ~lastT.t.wr
  /\ lastT.t.n = 2
  /\ lastT.t.block = SOCKET0_RX_BUFFER
  /\ lastT.t.addr = 65535
  /\ lastT.buf = <<255, 1>>
  /\ lastW.kind = "buf"

\* the bus operations of a complete init, outside its two waits: reset, the
\* two writes of the PHY configuration, the buffer sizes, the hardware address
\* (ea only), the socket mode, the open command, the status read
InitOrder(ea) ==
  << [wr |-> TRUE, block |-> 0, addr |-> 0, n |-> 1, data |-> <<128>>],
     [wr |-> TRUE, block |-> 0, addr |-> 46, n |-> 1, data |-> <<0>>],
     [wr |-> TRUE, block |-> 0, addr |-> 46, n |-> 1, data |-> <<248>>],
     [wr |-> TRUE, block |-> 1, addr |-> 30, n |-> 1, data |-> <<16>>],
     [wr |-> TRUE, block |-> 1, addr |-> 31, n |-> 1, data |-> <<16>>] >>
  \o (IF ea
        THEN << [wr |-> TRUE, block |-> 0, addr |-> 9, n |-> 6, data |-> <<>>],
                [wr |-> TRUE, block |-> 1, addr |-> 0, n |-> 1, data |-> <<132>>] >>
        ELSE << [wr |-> TRUE, block |-> 1, addr |-> 0, n |-> 1, data |-> <<4>>] >>)
  \o << [wr |-> TRUE, block |-> 1, addr |-> 1, n |-> 1, data |-> <<1>>],
        [wr |-> FALSE, block |-> 1, addr |-> 3, n |-> 1, data |-> <<0>>] >>

\* C26: init is a linear sequence: chip deselect, reset write and its wait,
\* PHY configuration, RX and TX buffer sizes of 16 for socket 0, socket mode
\* write, open command 0x01 and its wait, status check; the mode is written
\* before the open command; the hardware address is written and the mode is
\* 0x80 | 0x04 exactly when the MAC address is present, otherwise the mode is
\* 0x04 and the hardware-address register is not written.
C26_InitOrder ==
  InInit =>
    /\ desel = 1
    /\ IsPrefix(log, InitOrder(ethaddr))
    /\ pc = "init_wr_rst" => (log = <<>> /\ polled = {})
    /\ pc = "init_mr" => Len(log) = 1
    /\ Len(log) >= 2 => WaitPassed(1)
    /\ (pc \in {"init_cr", "init_sr"} \/ Len(waits) = 2)
         => Len(log) >= Len(InitOrder(ethaddr)) - 1
    /\ Len(log) = Len(InitOrder(ethaddr)) => WaitPassed(2)
    /\ (WritesTo(COMMON_REGISTER, SHAR) # <<>>) => ethaddr
    /\ \A i \in 1..Len(log) :
         IsWriteTo(log[i], SOCKET0_REGISTER, Sn_CR) =>
           \E j \in 1..(i - 1) :
              /\ IsWriteTo(log[j], SOCKET0_REGISTER, Sn_MR)
              /\ log[j].data = <<IF ethaddr THEN 132 ELSE 4>>
              /\ ethaddr => IsWriteTo(log[j - 1], COMMON_REGISTER, SHAR)

C26_Witness ==
  /\ done = "init"
  /\ ok
  /\ ethaddr
  /\ desel = 1
  /\ Len(log) = 9
  /\ Len(WritesTo(COMMON_REGISTER, SHAR)) = 1

\* C28: across init, poll and output calls on the main path, bus transactions
\* never nest or overlap: the chip is never selected while already selected,
\* every exchange happens while it is selected, every transaction makes all
\* its 3 + len exchanges before the deselect, and the chip is deselected
\* between any two steps, in particular whenever an operation returns.
C28_NoNestedTransactions ==
  /\ fault = "none"
  /\ ~cs

C28_Witness ==
  /\ pc = "idle"
  /\ caller = "ethif_output"
  /\ stage = "tx_end"
  /\ Len(log) = 5
  /\ hadPoll
  /\ ~cs
  /\ fault = "none"

\* the running or latest adapter operation is an ethif_poll that has returned
PollReturned == pc = "idle" /\ caller = "ethif_poll"

\* C29 as stated: each poll attempts at most one receive and hands at most one
\* frame to the stack's input, exactly when receive returned a non-zero
\* length, and the buffer allocated for the poll has been freed when the poll
\* returns, whatever input returned.
C29_PollFreesBuffer ==
  /\ rxCalls <= 1
  /\ Len(inputs) <= 1
  /\ (PollReturned /\ rxCalls = 1) =>
       /\ Len(inputs) = 1 <=> ret > 0
       /\ pbuf = "freed"

\* C29 amended: as above, but the adapter frees the buffer exactly when input
\* was not called or returned an error; when input returned ERR_OK the buffer
\* has passed to the stack and the adapter does not free it.
C29_PollFreesUnlessAccepted ==
  /\ rxCalls <= 1
  /\ Len(inputs) <= 1
  /\ (PollReturned /\ rxCalls = 1) =>
       /\ Len(inputs) = 1 <=> ret > 0
       /\ pbuf = (IF inputs = <<"ERR_OK">> THEN "accepted" ELSE "freed")
  /\ (PollReturned /\ rxCalls = 0) => (inputs = <<>> /\ pbuf \in {"none", "freed"})

C29_Witness ==
  /\ PollReturned
  /\ rxCalls = 1
  /\ ret = 1514
  /\ inputs = <<"ERR_MEM">>
  /\ pbuf = "freed"

\* C30: after the link check of every ethif_poll, and so when the poll
\* returns, the stack's link flag equals bit 0 of the byte the poll read from
\* PHYCFGR, whatever the flag was before; the link check makes exactly one
\* register read, of PHYCFGR, and no write.
C30_LinkFollowsPhy ==
  caller = "ethif_poll" =>
    /\ phy \in PhyReads
    /\ link_up = (phy % 2 = 1)
    /\ pc = "poll_alloc" =>
         log = << [wr |-> FALSE, block |-> 0, addr |-> 46, n |-> 1, data |-> <<0>>] >>

C30_Witness ==
  /\ pc = "poll_alloc"
  /\ notes = <<"down">>
  /\ phy = 190
  /\ ~link_up

\* C31: every buffer allocated by ethif_poll has exactly one owner outcome
\* when the poll returns: either netif->input returned ERR_OK and the adapter
\* made no pbuf_free call, or the adapter made exactly one pbuf_free call; no
\* path leaks the buffer and none frees a buffer the stack accepted.
C31_BufferOwnership ==
  /\ frees <= 1
  /\ inputs = <<"ERR_OK">> => frees = 0
  /\ PollReturned =>
       /\ alloc = "null" => (frees = 0 /\ inputs = <<>> /\ pbuf = "none")
       /\ alloc \in {"single", "chain"} =>
            /\ (inputs = <<"ERR_OK">>) # (frees = 1)
            /\ pbuf = (IF frees = 1 THEN "freed" ELSE "accepted")

C31_Witness ==
  /\ PollReturned
  /\ alloc = "single"
  /\ inputs = <<"ERR_OK">>
  /\ frees = 0
  /\ pbuf = "accepted"

\* C34: when pbuf_alloc fails or yields a chain, ethif_poll makes no receive
\* attempt in that poll: driver->rx is not called, nothing is written to the
\* chip (the RX read pointer and the command register included) and no
\* received-size register is read.
C34_NoBufferNoReceive ==
  alloc \in {"null", "chain"} =>
     /\ PollReturned
     /\ rxCalls = 0
     /\ inputs = <<>>
     /\ LogWrites = <<>>
     /\ polled = {}
     /\ log = << [wr |-> FALSE, block |-> 0, addr |-> 46, n |-> 1, data |-> <<0>>] >>

C34_Witness ==
  /\ PollReturned
  /\ alloc = "chain"
  /\ rxCalls = 0
  /\ frees = 1
  /\ pbuf = "freed"

\* C33 as stated: for every frame handed to ethif_output, a chain included,
\* the number of bytes transmit is told to read from the buffer it is given
\* never exceeds the number of bytes that buffer holds, and no more than
\* those are written to the chip.
C33_TxWithinBuffer ==
  caller = "ethif_output" =>
     /\ buflen <= plen
     /\ \A i \in 1..Len(TxRingWrites) : TxRingWrites[i].n <= plen

C32_TxOwnCompletion ==
  (done = "tx" /\ stage = "tx_end" /\ WaitPassed(3))
     => /\ BitAnd(ir, TxIrMask) = BitAnd(ownSeen, TxIrMask)
        /\ ret = buflen => BitAnd(ownSeen, Sn_IR_SENDOK) # 0

====
